---------------------------- MODULE Spec2Model ----------------------------
(***************************************************************************)
(* A model of src/mcd_dashboard_v7.go.  The file holds two revisions of    *)
(* the dashboard program:                                                  *)
(*   - v7  (lines 1-828):  a one-shot builder whose main() holds the DOJ   *)
(*     cache block (cache-or-rebuild of the id -> date-of-joining map);    *)
(*   - v16 (lines 830-end): a live server whose buildAll() reconciles the  *)
(*     roster (Basic.csv) with the service history (Services.csv) and      *)
(*     builds the aggregate tables; /refresh calls buildAll() again.       *)
(*                                                                         *)
(* Text is modelled as a sequence of characters (one-character strings;    *)
(* "NBSP", "BOM", "TAB" and "BAD" stand for U+00A0, U+FEFF, a tab and a    *)
(* byte that is not valid UTF-8).  Go maps are functions; the empty map    *)
(* is the function with the empty domain.                                  *)
(***************************************************************************)
EXTENDS Integers, Sequences, FiniteSets, TLC

(***************************************************************************)
(* Bounds of the model.                                                    *)
(***************************************************************************)
MaxRows == 2
MaxTime == 1
MaxPasses == 2
MaxRoster == 2
MaxHistory == 1
MaxParts == 5

-----------------------------------------------------------------------------
(***************************************************************************)
(* Text utilities.                                                         *)
(***************************************************************************)
EmptyMap == [k \in {} |-> <<>>]

Put(m, k, v) == [x \in (DOMAIN m) \cup {k} |-> IF x = k THEN v ELSE m[x]]

Lookup(m, k) == IF k \in DOMAIN m THEN m[k] ELSE <<>>

Digits == {"0", "1", "2", "3", "4", "5", "6", "7", "8", "9"}

LowerLetters == <<"a","b","c","d","e","f","g","h","i","j","k","l","m",
                  "n","o","p","q","r","s","t","u","v","w","x","y","z">>

UpperLetters == <<"A","B","C","D","E","F","G","H","I","J","K","L","M",
                  "N","O","P","Q","R","S","T","U","V","W","X","Y","Z">>

LowerSet == {LowerLetters[i] : i \in 1..26}

UpperSet == {UpperLetters[i] : i \in 1..26}

UpperOf == [c \in LowerSet |-> UpperLetters[CHOOSE i \in 1..26 : LowerLetters[i] = c]]

LowerOf == [c \in UpperSet |-> LowerLetters[CHOOSE i \in 1..26 : UpperLetters[i] = c]]

\* unicode.IsSpace on the characters of the model
IsSpace(c) == c \in {" ", "TAB", "NBSP"}

IsDigit(c) == c \in Digits

ToUpper(s) == [i \in 1..Len(s) |-> IF s[i] \in LowerSet THEN UpperOf[s[i]] ELSE s[i]]

ToLower(s) == [i \in 1..Len(s) |-> IF s[i] \in UpperSet THEN LowerOf[s[i]] ELSE s[i]]

TrimSpace(s) ==
    LET keep == {i \in 1..Len(s) : ~IsSpace(s[i])}
    IN  IF keep = {} THEN <<>>
        ELSE LET lo == CHOOSE i \in keep : \A j \in keep : i <= j
                 hi == CHOOSE i \in keep : \A j \in keep : i >= j
             IN  SubSeq(s, lo, hi)

HasSuffix(s, suf) ==
    /\ Len(s) >= Len(suf)
    /\ SubSeq(s, Len(s) - Len(suf) + 1, Len(s)) = suf

Contains(s, sub) ==
    \E i \in 1..(Len(s) - Len(sub) + 1) :
        \A j \in 1..Len(sub) : s[i + j - 1] = sub[j]

\* strings.ReplaceAll(s, "  ", " "): non-overlapping matches, left to right
RECURSIVE ReplaceAllDoubleSpace(_)
ReplaceAllDoubleSpace(s) ==
    IF Len(s) < 2 THEN s
    ELSE IF s[1] = " " /\ s[2] = " "
         THEN <<" ">> \o ReplaceAllDoubleSpace(SubSeq(s, 3, Len(s)))
         ELSE <<s[1]>> \o ReplaceAllDoubleSpace(Tail(s))

RECURSIVE CollapseSpaces(_)
CollapseSpaces(s) ==
    IF Contains(s, <<" ", " ">>) THEN CollapseSpaces(ReplaceAllDoubleSpace(s)) ELSE s

IsNotBOM(c) == c # "BOM"

norm(s) ==
    LET s1 == SelectSeq(s, IsNotBOM)
        s2 == [i \in 1..Len(s1) |-> IF s1[i] = "NBSP" THEN " " ELSE s1[i]]
        s3 == TrimSpace(s2)
    IN  CollapseSpaces(s3)

stripDot0(s) ==
    LET t == norm(s)
    IN  IF HasSuffix(t, <<".", "0">>) THEN SubSeq(t, 1, Len(t) - 2) ELSE t

digitsOnly(s) == SelectSeq(s, IsDigit)

\* the id taken from the digits of the normalised text, a trailing .0 kept
normalizeEmpID_keepDot0(s) == digitsOnly(norm(s))

normalizeEmpID(s) == digitsOnly(stripDot0(s))

\* the least number of digits of a school id: \d{5,} in rxDigits, rxLastNum
MinRun == 5

AllDigits(s, i, n) == \A k \in i..(i + n - 1) : IsDigit(s[k])

\* the lengths n of the matches of (\d{5,})\D*$ that start at position i
lastNumAt(s, i) ==
    {n \in MinRun..(Len(s) - i + 1) :
        /\ AllDigits(s, i, n)
        /\ \A k \in (i + n)..Len(s) : ~IsDigit(s[k])}

\* the lengths n of the matches of (\d{5,}) that start at position i
digitsAt(s, i) == {n \in MinRun..(Len(s) - i + 1) : AllDigits(s, i, n)}

Least(S) == CHOOSE x \in S : \A y \in S : x <= y

Greatest(S) == CHOOSE x \in S : \A y \in S : y <= x

\* FindStringSubmatch: the leftmost match, the group as long as it can be;
\* <<>> when nothing matches
rxLastNum(s) ==
    LET at == {i \in 1..Len(s) : lastNumAt(s, i) # {}}
    IN  IF at = {} THEN <<>>
        ELSE SubSeq(s, Least(at), Least(at) + Greatest(lastNumAt(s, Least(at))) - 1)

rxDigits(s) ==
    LET at == {i \in 1..Len(s) : digitsAt(s, i) # {}}
    IN  IF at = {} THEN <<>>
        ELSE SubSeq(s, Least(at), Least(at) + Greatest(digitsAt(s, Least(at))) - 1)

\* the school id taken from the first run of digits only
digitsOnlyKey_firstRun(s) == rxDigits(norm(s))

digitsOnlyKey(s) ==
    LET t == norm(s)
    IN  IF rxLastNum(t) # <<>> THEN rxLastNum(t) ELSE rxDigits(t)

-----------------------------------------------------------------------------
(***************************************************************************)
(* Column names used by the code.                                          *)
(***************************************************************************)
colEmployeeID == <<"E","m","p","l","o","y","e","e"," ","I","D">>
colEmpID == <<"E","m","p"," ","I","D">>
colDateOfJoining == <<"D","a","t","e"," ","o","f"," ","J","o","i","n","i","n","g">>
colDOJ == <<"D","O","J">>
colEmployeesEmailID == <<"E","m","p","l","o","y","e","e","s","_","E","m","a","i","l","_","I","D">>
colEmail == <<"E","m","a","i","l">>
colEmailID == <<"E","m","a","i","l"," ","I","D">>
colNameOfTheEmployee == <<"N","a","m","e"," ","o","f"," ","t","h","e"," ","E","m","p","l","o","y","e","e">>
colEmployeeName == <<"E","m","p","l","o","y","e","e"," ","N","a","m","e">>
colName == <<"N","a","m","e">>
colGender == <<"G","e","n","d","e","r">>
colMaritalStatus == <<"M","a","r","i","t","a","l"," ","S","t","a","t","u","s">>
colMarital == <<"M","a","r","i","t","a","l">>
colSelectionCategory == <<"S","e","l","e","c","t","i","o","n"," ","C","a","t","e","g","o","r","y">>
colSelectionCategory1 == <<"S","e","l","e","c","t","i","o","n","C","a","t","e","g","o","r","y">>
colAppliedCategory == <<"A","p","p","l","i","e","d"," ","C","a","t","e","g","o","r","y">>
colCategory == <<"C","a","t","e","g","o","r","y">>
colSchoolNameAndID == <<"S","c","h","o","o","l"," ","N","a","m","e"," ","&"," ","I","D">>
colSchoolNameAndID1 == <<"S","c","h","o","o","l"," ","N","a","m","e"," ","a","n","d"," ","I","D">>
colSchoolName == <<"S","c","h","o","o","l"," ","N","a","m","e">>
colZoneID == <<"Z","o","n","e"," ","I","D">>
colZoneName == <<"Z","o","n","e"," ","N","a","m","e">>
colZone == <<"Z","o","n","e">>
colReligion == <<"R","e","l","i","g","i","o","n">>
colDesignation == <<"D","e","s","i","g","n","a","t","i","o","n">>
colMaxPresent == <<"M","a","x"," ","P","r","e","s","e","n","t">>

-----------------------------------------------------------------------------
(***************************************************************************)
(* The tabular source reader.  A file is [header, rows]: the records the   *)
(* CSV reader returns, the first being the header.  Column positions are   *)
(* zero-based as in the code.                                              *)
(***************************************************************************)
readCSV(file) ==
    [header |-> [i \in 1..Len(file.header) |-> norm(file.header[i])],
     rows   |-> [i \in 1..Len(file.rows) |->
                    [j \in 1..Len(file.rows[i]) |-> norm(file.rows[i][j])]]]

\* v7 idxMap: lower-cased trimmed name -> first position
idxMap_v7(h) ==
    LET key == [i \in 1..Len(h) |-> ToLower(TrimSpace(h[i]))]
    IN  [k \in {key[i] : i \in 1..Len(h)} |->
            (CHOOSE i \in 1..Len(h) :
                /\ key[i] = k
                /\ \A j \in 1..(i - 1) : key[j] # k) - 1]

\* v16 idxMap: NBSP and every space character become " ", BOM is dropped
idxMap(h) ==
    LET clean(c) ==
            LET c1 == [i \in 1..Len(c) |-> IF c[i] = "NBSP" THEN " " ELSE c[i]]
                c2 == SelectSeq(c1, IsNotBOM)
            IN  [i \in 1..Len(c2) |-> IF IsSpace(c2[i]) THEN " " ELSE c2[i]]
        key == [i \in 1..Len(h) |-> ToLower(TrimSpace(clean(h[i])))]
    IN  [k \in {key[i] : i \in 1..Len(h)} |->
            (CHOOSE i \in 1..Len(h) :
                /\ key[i] = k
                /\ \A j \in 1..(i - 1) : key[j] # k) - 1]

\* the names the code passes to get, with their lower-cased trimmed form
\* (worked out once)
ColumnNames ==
    { colEmployeeID, colEmpID, colDateOfJoining, colDOJ, colEmployeesEmailID,
      colEmail, colEmailID, colNameOfTheEmployee, colEmployeeName, colName,
      colGender, colMaritalStatus, colMarital, colSelectionCategory,
      colSelectionCategory1, colAppliedCategory, colCategory,
      colSchoolNameAndID, colSchoolNameAndID1, colSchoolName, colZoneID,
      colZoneName, colZone, colReligion, colDesignation, colMaxPresent }

columnKey == [nm \in ColumnNames |-> ToLower(TrimSpace(nm))]

\* get that stops at the first name the index has, also when its position
\* is beyond the end of the row
RECURSIVE get_firstInIndex(_, _, _)
get_firstInIndex(rec, m, names) ==
    IF names = <<>> THEN <<>>
    ELSE LET k == ToLower(TrimSpace(Head(names)))
         IN  IF k \in DOMAIN m
             THEN (IF m[k] >= 0 /\ m[k] < Len(rec) THEN norm(rec[m[k] + 1]) ELSE <<>>)
             ELSE get_firstInIndex(rec, m, Tail(names))

\* get(rec, m, name, aliases...): names = <<name>> \o aliases
RECURSIVE get(_, _, _)
get(rec, m, names) ==
    IF names = <<>> THEN <<>>
    ELSE LET nm == Head(names)
             k == IF nm \in ColumnNames THEN columnKey[nm]
                  ELSE ToLower(TrimSpace(nm))
         IN  IF k \in DOMAIN m /\ m[k] >= 0 /\ m[k] < Len(rec)
             THEN norm(rec[m[k] + 1])
             ELSE get(rec, m, Tail(names))

-----------------------------------------------------------------------------
(***************************************************************************)
(* State.                                                                  *)
(*                                                                         *)
(* v7 (the DOJ cache block of main):                                       *)
(*   servFile, servMtime  Services.csv and its modification time           *)
(*   cacheDirExists       whether the parent directory of -cache exists    *)
(*   cacheFile            the file at -cache                               *)
(*   now                  the file system's clock                          *)
(*   path                 where the running process is: "none" (no process *)
(*                        runs), "rebuild", "reuse", "fatal"               *)
(*   dojByEmpID           main's id -> date map                            *)
(*   scanned              whether the rebuild loop over sRows ran          *)
(*   seen                 the cache file and directory as the running      *)
(*                        process found them, and its -rebuild flag        *)
(***************************************************************************)
VARIABLES servFile, servMtime, cacheDirExists, cacheFile, now,
          path, dojByEmpID, scanned, seen

cacheVars == <<servFile, servMtime, cacheDirExists, cacheFile, now,
               path, dojByEmpID, scanned, seen>>

(***************************************************************************)
(* v16 (buildAll and the server): the package-level variables              *)
(*   bRows, sRows, bm, sm   the rows and column indexes read last          *)
(*   emailByEmpID, nameByEmpID, genderByEmpID, catByEmpID, maritalByEmpID  *)
(*   EMP                    the person records                             *)
(*   DEMO_ZONES, CATEGORY_WISE, GENDER_WISE   the aggregate tables         *)
(*   passes                 how many times buildAll has run                *)
(*   ZLBL, ZVAL, DLBL, DVAL the ranked summaries of zones and designations  *)
(***************************************************************************)
VARIABLES bRows, sRows, bm, sm,
          emailByEmpID, nameByEmpID, genderByEmpID, catByEmpID, maritalByEmpID,
          EMP, DEMO_ZONES, CATEGORY_WISE, GENDER_WISE, passes,
          ZLBL, ZVAL, DLBL, DVAL

buildVars == <<bRows, sRows, bm, sm,
               emailByEmpID, nameByEmpID, genderByEmpID, catByEmpID,
               maritalByEmpID, EMP, DEMO_ZONES, CATEGORY_WISE, GENDER_WISE,
               passes, ZLBL, ZVAL, DLBL, DVAL>>

(***************************************************************************)
(* Calls of the text functions (normalizeEmpID, digitsOnlyKey, ...):       *)
(*   text      the text of a cell as the CSV file holds it                 *)
(*   called    the last call made on it: the function, the argument it     *)
(*             got and the value it returned                               *)
(***************************************************************************)
VARIABLES text, called

callVars == <<text, called>>

(***************************************************************************)
(* Staffing: the school records and what is derived from them              *)
(*   SCH       the school records (both revisions)                         *)
(*   STAFF     v7: the staffing list main builds                           *)
(*   resp      v16: the last response of handleAPISchool                   *)
(***************************************************************************)
VARIABLES SCH, STAFF, resp

staffVars == <<SCH, STAFF, resp>>

(***************************************************************************)
(* v16: requests served while /refresh runs, each in its own goroutine     *)
(*   pc        where each /refresh request is inside buildAll              *)
(*   todo      the roster rows each /refresh request has still to add      *)
(*   tables    the person map each pass read so far builds when it runs    *)
(*             alone                                                       *)
(*   crashed   the runtime has stopped the process on a map access that    *)
(*             ran into a write                                            *)
(***************************************************************************)
VARIABLES pc, todo, tables, crashed

raceVars == <<pc, todo, tables, crashed>>

\* everything but the variables of the cache block / of buildAll
offCache == <<buildVars, callVars, staffVars, raceVars>>

offBuild == <<cacheVars, callVars, staffVars, raceVars>>

vars == <<cacheVars, buildVars, callVars, staffVars, raceVars>>

-----------------------------------------------------------------------------
(***************************************************************************)
(* v7: the DOJ cache block.                                                *)
(***************************************************************************)
NoFile == [exists |-> FALSE, readable |-> FALSE, valid |-> FALSE,
           obj |-> EmptyMap, mtime |-> 0]

NotSeen == [cache |-> NoFile, dir |-> FALSE, force |-> FALSE]

\* encoding/json writes a byte that is not valid UTF-8 as U+FFFD
jsonString(s) == [i \in 1..Len(s) |-> IF s[i] = "BAD" THEN "U+FFFD" ELSE s[i]]

\* json.Marshal of a map[string]string: a JSON object of strings
\* (the ids of the model hold no invalid byte, so no two keys collide)
jsonMarshal(m) == [k \in DOMAIN m |-> [t |-> "str", s |-> jsonString(m[k])]]

\* json.Unmarshal into the map: a syntax error leaves the map untouched; a
\* value that is no string leaves the zero value under its key, and the
\* error is returned only after the whole object is decoded
jsonUnmarshal(file, m) ==
    IF ~file.valid THEN m
    ELSE [k \in (DOMAIN m) \cup (DOMAIN file.obj) |->
             IF k \in DOMAIN file.obj
             THEN (IF file.obj[k].t = "str" THEN file.obj[k].s ELSE <<>>)
             ELSE m[k]]

\* a write that merges the new entries into the old file instead of truncating
osWriteFile_merge(dirExists, file, obj, t) ==
    IF ~dirExists THEN file
    ELSE [exists |-> TRUE,
          readable |-> IF file.exists THEN file.readable ELSE TRUE,
          valid |-> TRUE,
          obj |-> [k \in (DOMAIN file.obj) \cup (DOMAIN obj) |->
                      IF k \in DOMAIN obj THEN obj[k] ELSE file.obj[k]],
          mtime |-> t]

\* os.WriteFile(cacheFile, data, 0644): fails when the directory is missing;
\* an existing file keeps its mode
osWriteFile(dirExists, file, obj, t) ==
    IF ~dirExists THEN file
    ELSE [exists |-> TRUE,
          readable |-> IF file.exists THEN file.readable ELSE TRUE,
          valid |-> TRUE, obj |-> obj, mtime |-> t]

\* the staleness test with "not before" in place of "after"
needRebuild_notBefore(file, svcM) == ~file.exists \/ svcM >= file.mtime

\* line 484: err != nil || svcInfo.ModTime().After(cacheInfo.ModTime())
needRebuild(file, svcM) == ~file.exists \/ svcM > file.mtime

\* the rebuild loop with the first row of an id winning
RECURSIVE rebuildDOJ_firstWins(_, _, _)
rebuildDOJ_firstWins(rows, m, acc) ==
    IF rows = <<>> THEN acc
    ELSE LET r == Head(rows)
             empID == stripDot0(get(r, m, <<colEmployeeID, colEmpID>>))
             dojRaw == get(r, m, <<colDateOfJoining>>)
         IN  rebuildDOJ_firstWins(Tail(rows), m,
                        IF empID # <<>> /\ dojRaw # <<>> /\ empID \notin DOMAIN acc
                        THEN Put(acc, empID, dojRaw) ELSE acc)

\* lines 489-496: the rebuild loop
RECURSIVE rebuildDOJ(_, _, _)
rebuildDOJ(rows, m, acc) ==
    IF rows = <<>> THEN acc
    ELSE LET r == Head(rows)
             empID == stripDot0(get(r, m, <<colEmployeeID, colEmpID>>))
             dojRaw == get(r, m, <<colDateOfJoining>>)
         IN  rebuildDOJ(Tail(rows), m,
                        IF empID # <<>> /\ dojRaw # <<>>
                        THEN Put(acc, empID, dojRaw) ELSE acc)

\* lines 478-508 of main, with the -rebuild flag force
main_v7(force) ==
    /\ path = "none"
    /\ LET csv == readCSV(servFile)
           smv7 == idxMap_v7(csv.header)
       IN  IF needRebuild(cacheFile, servMtime) \/ force
           THEN LET m == rebuildDOJ(csv.rows, smv7, EmptyMap)
                IN  /\ dojByEmpID' = m
                    /\ cacheFile' = osWriteFile(cacheDirExists, cacheFile,
                                                jsonMarshal(m), now)
                    /\ scanned' = TRUE
                    /\ path' = "rebuild"
           ELSE IF ~cacheFile.readable
                THEN /\ dojByEmpID' = EmptyMap
                     /\ path' = "fatal"
                     /\ UNCHANGED <<cacheFile, scanned>>
                ELSE /\ dojByEmpID' = jsonUnmarshal(cacheFile, EmptyMap)
                     /\ path' = "reuse"
                     /\ UNCHANGED <<cacheFile, scanned>>
    /\ seen' = [cache |-> cacheFile, dir |-> cacheDirExists, force |-> force]
    /\ UNCHANGED <<servFile, servMtime, cacheDirExists, now,
                   offCache>>

\* the process ends; its memory is gone, the files stay
Exit ==
    /\ path # "none"
    /\ path' = "none"
    /\ dojByEmpID' = EmptyMap
    /\ scanned' = FALSE
    /\ seen' = NotSeen
    /\ UNCHANGED <<servFile, servMtime, cacheDirExists, cacheFile, now,
                   offCache>>

(***************************************************************************)
(* The environment between two runs: the inputs of the cache block.        *)
(***************************************************************************)
SvcHeader == <<colEmployeeID, colDateOfJoining>>

\* date texts
D1 == <<"1", "/", "2">>
D2 == <<"3", "/", "4">>

\* rows of Services.csv: raw id, raw date
SvcRowChoices ==
    { <<<<"7">>, D1>>,
      <<<<" ", "7", ".", "0">>, D2>>,
      <<<<"8">>, <<"NBSP">> \o D1>>,
      <<<<>>, D2>>,
      <<<<"9">>>> }

\* a row is appended to Services.csv
AppendService ==
    /\ path = "none"
    /\ Len(servFile.rows) < MaxRows
    /\ \E r \in SvcRowChoices :
          servFile' = [servFile EXCEPT !.rows = Append(@, r)]
    /\ servMtime' = now
    /\ UNCHANGED <<cacheDirExists, cacheFile, now, path, dojByEmpID, scanned, seen,
                   offCache>>

\* Services.csv is cut down to its header
ClearServices ==
    /\ path = "none"
    /\ Len(servFile.rows) > 0
    /\ servFile' = [servFile EXCEPT !.rows = <<>>]
    /\ servMtime' = now
    /\ UNCHANGED <<cacheDirExists, cacheFile, now, path, dojByEmpID, scanned, seen,
                   offCache>>

Tick ==
    /\ path = "none"
    /\ now < MaxTime
    /\ now' = now + 1
    /\ UNCHANGED <<servFile, servMtime, cacheDirExists, cacheFile,
                   path, dojByEmpID, scanned, seen,
                   offCache>>

MakeCacheDir ==
    /\ path = "none"
    /\ ~cacheDirExists
    /\ cacheDirExists' = TRUE
    /\ UNCHANGED <<servFile, servMtime, cacheFile, now, path, dojByEmpID, scanned, seen,
                   offCache>>

RemoveCacheDir ==
    /\ path = "none"
    /\ cacheDirExists
    /\ cacheDirExists' = FALSE
    /\ cacheFile' = NoFile
    /\ UNCHANGED <<servFile, servMtime, now, path, dojByEmpID, scanned, seen,
                   offCache>>

RemoveCache ==
    /\ path = "none"
    /\ cacheFile.exists
    /\ cacheFile' = NoFile
    /\ UNCHANGED <<servFile, servMtime, cacheDirExists, now, path, dojByEmpID, scanned, seen,
                   offCache>>

\* the cache file is overwritten with text that is no JSON
GarbleCache ==
    /\ path = "none"
    /\ cacheFile.exists
    /\ cacheFile' = [cacheFile EXCEPT !.valid = FALSE, !.obj = EmptyMap, !.mtime = now]
    /\ UNCHANGED <<servFile, servMtime, cacheDirExists, now, path, dojByEmpID, scanned, seen,
                   offCache>>

\* one value of the cached object is replaced by a number
BadValueCache ==
    /\ path = "none"
    /\ cacheFile.exists /\ cacheFile.valid
    /\ \E k \in DOMAIN cacheFile.obj :
          /\ cacheFile.obj[k].t = "str"
          /\ cacheFile' = [cacheFile EXCEPT !.obj[k] = [t |-> "num", s |-> <<>>],
                                            !.mtime = now]
    /\ UNCHANGED <<servFile, servMtime, cacheDirExists, now, path, dojByEmpID, scanned, seen,
                   offCache>>

\* the cache file loses or regains its read permission
ChmodCache ==
    /\ path = "none"
    /\ cacheFile.exists
    /\ cacheFile' = [cacheFile EXCEPT !.readable = ~cacheFile.readable]
    /\ UNCHANGED <<servFile, servMtime, cacheDirExists, now, path, dojByEmpID, scanned, seen,
                   offCache>>

RunMain == \E force \in BOOLEAN : main_v7(force)

CacheInit ==
    /\ servFile = [header |-> SvcHeader, rows |-> <<>>]
    /\ servMtime = 0
    /\ cacheDirExists \in BOOLEAN
    /\ cacheFile = NoFile
    /\ now = 0
    /\ path = "none"
    /\ dojByEmpID = EmptyMap
    /\ scanned = FALSE
    /\ seen = NotSeen

\* the v16 package-level variables as their declarations leave them
BuildFresh ==
    /\ bRows = <<>> /\ sRows = <<>>
    /\ bm = EmptyMap /\ sm = EmptyMap
    /\ emailByEmpID = EmptyMap
    /\ nameByEmpID = EmptyMap
    /\ genderByEmpID = EmptyMap
    /\ catByEmpID = EmptyMap
    /\ maritalByEmpID = EmptyMap
    /\ EMP = EmptyMap
    /\ DEMO_ZONES = <<>>
    /\ CATEGORY_WISE = EmptyMap
    /\ GENDER_WISE = EmptyMap
    /\ passes = 0
    /\ ZLBL = <<>> /\ ZVAL = <<>> /\ DLBL = <<>> /\ DVAL = <<>>

CacheNext ==
    \/ RunMain
    \/ Exit
    \/ AppendService
    \/ ClearServices
    \/ Tick
    \/ MakeCacheDir
    \/ RemoveCacheDir
    \/ RemoveCache
    \/ GarbleCache
    \/ BadValueCache
    \/ ChmodCache

\* no text function has been called
NoCall == [fn |-> "none", arg |-> <<>>, val |-> <<>>]

CallFresh == text = <<>> /\ called = NoCall

\* no school is known and no request has been answered
NoResp == [status |-> 0]

StaffFresh == SCH = EmptyMap /\ STAFF = <<>> /\ resp = NoResp

\* the /refresh requests that can be in flight together
Refreshers == {1, 2}

\* no /refresh request is in flight
RaceFresh ==
    /\ pc = [p \in Refreshers |-> "idle"]
    /\ todo = [p \in Refreshers |-> <<>>]
    /\ tables = {}
    /\ crashed = FALSE

Init == CacheInit /\ BuildFresh /\ CallFresh /\ StaffFresh /\ RaceFresh

SpecCache == Init /\ [][CacheNext]_vars

-----------------------------------------------------------------------------
(***************************************************************************)
(* v16: buildAll.                                                          *)
(***************************************************************************)
UNKNOWN == <<"U","N","K","N","O","W","N">>

\* the characters of the model in byte order (Go compares strings bytewise)
ByteOrder ==
    <<"TAB", " ", "&", ".", "/",
      "0", "1", "2", "3", "4", "5", "6", "7", "8", "9", "@">>
    \o UpperLetters \o <<"_">> \o LowerLetters \o <<"BAD", "U+FFFD">>

byteRank == [c \in {ByteOrder[i] : i \in 1..Len(ByteOrder)} |->
                CHOOSE i \in 1..Len(ByteOrder) : ByteOrder[i] = c]

\* a < b on Go strings
LessStr(a, b) ==
    \E i \in 1..Len(b) :
        /\ \A j \in 1..(i - 1) : j <= Len(a) /\ a[j] = b[j]
        /\ (i > Len(a) \/ byteRank[a[i]] < byteRank[b[i]])

\* the elements of a set of strings with the greatest first
RECURSIVE SortStrings_descending(_)
SortStrings_descending(S) ==
    IF S = {} THEN <<>>
    ELSE LET mx == CHOOSE x \in S : \A y \in S : x = y \/ LessStr(y, x)
         IN  <<mx>> \o SortStrings_descending(S \ {mx})

\* the elements of a set of strings in ascending order (sort.Slice on keys
\* that are all different)
RECURSIVE SortStrings(_)
SortStrings(S) ==
    IF S = {} THEN <<>>
    ELSE LET mn == CHOOSE x \in S : \A y \in S : x = y \/ LessStr(x, y)
         IN  <<mn>> \o SortStrings(S \ {mn})

canonicalCategory(raw) ==
    LET s == ToUpper(TrimSpace(raw))
    IN  IF s = <<>> THEN UNKNOWN ELSE s

canonicalReligion(raw) ==
    LET s == ToUpper(TrimSpace(raw))
    IN  IF s = <<>> THEN UNKNOWN ELSE s

\* lines 1224-1241: the lookup maps from Basic.csv; L holds the five maps
RECURSIVE lookupsFromBasic(_, _, _)
lookupsFromBasic(rows, m, L) ==
    IF rows = <<>> THEN L
    ELSE LET r == Head(rows)
             id == normalizeEmpID(get(r, m, <<colEmployeeID, colEmpID>>))
             vEmail == get(r, m, <<colEmployeesEmailID, colEmail, colEmailID>>)
             vName == get(r, m, <<colNameOfTheEmployee, colEmployeeName, colName>>)
             vGender == get(r, m, <<colGender>>)
             vMarital == get(r, m, <<colMaritalStatus, colMarital>>)
         IN  IF id = <<>> THEN lookupsFromBasic(Tail(rows), m, L)
             ELSE lookupsFromBasic(Tail(rows), m,
                    [email   |-> IF vEmail # <<>> THEN Put(L.email, id, vEmail)
                                 ELSE L.email,
                     name    |-> IF vName # <<>> THEN Put(L.name, id, vName)
                                 ELSE L.name,
                     gender  |-> IF vGender # <<>>
                                 THEN Put(L.gender, id, ToUpper(vGender))
                                 ELSE L.gender,
                     cat     |-> L.cat,
                     marital |-> IF vMarital # <<>> THEN Put(L.marital, id, vMarital)
                                 ELSE L.marital])

\* the Services.csv loop with the history marital status stored whenever it
\* is non-empty
RECURSIVE lookupsFromServices_overwrite(_, _, _)
lookupsFromServices_overwrite(rows, m, S) ==
    IF rows = <<>> THEN S
    ELSE LET r == Head(rows)
             empID == normalizeEmpID(get(r, m, <<colEmployeeID, colEmpID>>))
             dojRaw == get(r, m, <<colDateOfJoining, colDOJ>>)
             rawCat == get(r, m, <<colSelectionCategory, colSelectionCategory1,
                                   colAppliedCategory, colCategory>>)
             mar == get(r, m, <<colMaritalStatus, colMarital>>)
         IN  IF empID = <<>> THEN lookupsFromServices_overwrite(Tail(rows), m, S)
             ELSE lookupsFromServices_overwrite(Tail(rows), m,
                    [doj     |-> IF dojRaw # <<>> THEN Put(S.doj, empID, dojRaw)
                                 ELSE S.doj,
                     cat     |-> Put(S.cat, empID, canonicalCategory(rawCat)),
                     marital |-> IF mar # <<>> THEN Put(S.marital, empID, mar)
                                 ELSE S.marital])

\* lines 1245-1262: DOJ, category and marital status from Services.csv;
\* S holds dojByEmpID (local to buildAll), catByEmpID and maritalByEmpID
RECURSIVE lookupsFromServices(_, _, _)
lookupsFromServices(rows, m, S) ==
    IF rows = <<>> THEN S
    ELSE LET r == Head(rows)
             empID == normalizeEmpID(get(r, m, <<colEmployeeID, colEmpID>>))
             dojRaw == get(r, m, <<colDateOfJoining, colDOJ>>)
             rawCat == get(r, m, <<colSelectionCategory, colSelectionCategory1,
                                   colAppliedCategory, colCategory>>)
             mar == get(r, m, <<colMaritalStatus, colMarital>>)
         IN  IF empID = <<>> THEN lookupsFromServices(Tail(rows), m, S)
             ELSE lookupsFromServices(Tail(rows), m,
                    [doj     |-> IF dojRaw # <<>> THEN Put(S.doj, empID, dojRaw)
                                 ELSE S.doj,
                     cat     |-> Put(S.cat, empID, canonicalCategory(rawCat)),
                     marital |-> IF mar # <<>> /\ empID \notin DOMAIN S.marital
                                 THEN Put(S.marital, empID, mar)
                                 ELSE S.marital])

\* the person records without the skip of rows whose id resolves to nothing
RECURSIVE buildEMP_keepBlank(_, _, _, _, _)
buildEMP_keepBlank(rows, m, L, doj, emp) ==
    IF rows = <<>> THEN emp
    ELSE LET r == Head(rows)
             id == normalizeEmpID(get(r, m, <<colEmployeeID, colEmpID>>))
             sname == get(r, m, <<colSchoolNameAndID, colSchoolNameAndID1,
                                  colSchoolName>>)
             z == ToUpper(TrimSpace(get(r, m, <<colZoneID, colZoneName, colZone>>)))
             zoneName == IF z = <<>> THEN UNKNOWN ELSE z
             e == [ID                |-> id,
                   Name              |-> Lookup(L.name, id),
                   Designation       |-> get(r, m, <<colDesignation>>),
                   Gender            |-> Lookup(L.gender, id),
                   Zone              |-> zoneName,
                   SchoolID          |-> digitsOnlyKey(sname),
                   SchoolName        |-> sname,
                   SelectionCategory |-> Lookup(L.cat, id),
                   MaritalStatus     |-> Lookup(L.marital, id),
                   Email             |-> Lookup(L.email, id),
                   DOJ               |-> Lookup(doj, id),
                   Religion          |-> canonicalReligion(get(r, m, <<colReligion>>))]
         IN  buildEMP_keepBlank(Tail(rows), m, L, doj, Put(emp, id, e))

\* the person records with the zone as the roster row has it, no default
RECURSIVE buildEMP_rawZone(_, _, _, _, _)
buildEMP_rawZone(rows, m, L, doj, emp) ==
    IF rows = <<>> THEN emp
    ELSE LET r == Head(rows)
             id == normalizeEmpID(get(r, m, <<colEmployeeID, colEmpID>>))
             sname == get(r, m, <<colSchoolNameAndID, colSchoolNameAndID1,
                                  colSchoolName>>)
             z == ToUpper(TrimSpace(get(r, m, <<colZoneID, colZoneName, colZone>>)))
             zoneName == z
             e == [ID                |-> id,
                   Name              |-> Lookup(L.name, id),
                   Designation       |-> get(r, m, <<colDesignation>>),
                   Gender            |-> Lookup(L.gender, id),
                   Zone              |-> zoneName,
                   SchoolID          |-> digitsOnlyKey(sname),
                   SchoolName        |-> sname,
                   SelectionCategory |-> Lookup(L.cat, id),
                   MaritalStatus     |-> Lookup(L.marital, id),
                   Email             |-> Lookup(L.email, id),
                   DOJ               |-> Lookup(doj, id),
                   Religion          |-> canonicalReligion(get(r, m, <<colReligion>>))]
         IN  IF id = <<>> THEN buildEMP_rawZone(Tail(rows), m, L, doj, emp)
             ELSE buildEMP_rawZone(Tail(rows), m, L, doj, Put(emp, id, e))

\* lines 1284-1335: the person records (EMP starts empty, line 1280)
RECURSIVE buildEMP(_, _, _, _, _)
buildEMP(rows, m, L, doj, emp) ==
    IF rows = <<>> THEN emp
    ELSE LET r == Head(rows)
             id == normalizeEmpID(get(r, m, <<colEmployeeID, colEmpID>>))
             sname == get(r, m, <<colSchoolNameAndID, colSchoolNameAndID1,
                                  colSchoolName>>)
             z == ToUpper(TrimSpace(get(r, m, <<colZoneID, colZoneName, colZone>>)))
             zoneName == IF z = <<>> THEN UNKNOWN ELSE z
             e == [ID                |-> id,
                   Name              |-> Lookup(L.name, id),
                   Designation       |-> get(r, m, <<colDesignation>>),
                   Gender            |-> Lookup(L.gender, id),
                   Zone              |-> zoneName,
                   SchoolID          |-> digitsOnlyKey(sname),
                   SchoolName        |-> sname,
                   SelectionCategory |-> Lookup(L.cat, id),
                   MaritalStatus     |-> Lookup(L.marital, id),
                   Email             |-> Lookup(L.email, id),
                   DOJ               |-> Lookup(doj, id),
                   Religion          |-> canonicalReligion(get(r, m, <<colReligion>>))]
         IN  IF id = <<>> THEN buildEMP(Tail(rows), m, L, doj, emp)
             ELSE buildEMP(Tail(rows), m, L, doj, Put(emp, id, e))

NewStat == [Male |-> 0, Female |-> 0]

NewDemoStats == [TotalMale |-> 0, TotalFemale |-> 0, Total |-> 0,
                 CatStats |-> EmptyMap, ReligionStats |-> EmptyMap]

NoDemo == [zmap |-> EmptyMap, totalMale |-> 0, totalFemale |-> 0,
           CATEGORY_WISE |-> EmptyMap]

Bump(b) == IF b THEN 1 ELSE 0

\* line 1447: the sex tokens, applied to the upper-cased trimmed text
isMale(g) == g = <<"M","A","L","E">> \/ g = <<"M">>

\* every record that is not male taken as female
isFemale_notMale(g) == ~isMale(g)

isFemale(g) == g = <<"F","E","M","A","L","E">> \/ g = <<"F">>

\* the cell with the female counter of the religion left as it was
countIn_religionMaleOnly(st, cat, rel, male, female, one) ==
    LET cs == IF cat \in DOMAIN st.CatStats THEN st.CatStats[cat] ELSE NewStat
        rs == IF rel \in DOMAIN st.ReligionStats THEN st.ReligionStats[rel]
              ELSE NewStat
    IN  [TotalMale     |-> st.TotalMale + Bump(male),
         TotalFemale   |-> st.TotalFemale + Bump(female),
         Total         |-> st.Total + one,
         CatStats      |-> Put(st.CatStats, cat,
                               [Male   |-> cs.Male + Bump(male),
                                Female |-> cs.Female + Bump(female)]),
         ReligionStats |-> Put(st.ReligionStats, rel,
                               [Male   |-> rs.Male + Bump(male),
                                Female |-> rs.Female])]

\* the cell of a record after one more person is counted in it
countIn(st, cat, rel, male, female, one) ==
    LET cs == IF cat \in DOMAIN st.CatStats THEN st.CatStats[cat] ELSE NewStat
        rs == IF rel \in DOMAIN st.ReligionStats THEN st.ReligionStats[rel]
              ELSE NewStat
    IN  [TotalMale     |-> st.TotalMale + Bump(male),
         TotalFemale   |-> st.TotalFemale + Bump(female),
         Total         |-> st.Total + one,
         CatStats      |-> Put(st.CatStats, cat,
                               [Male   |-> cs.Male + Bump(male),
                                Female |-> cs.Female + Bump(female)]),
         ReligionStats |-> Put(st.ReligionStats, rel,
                               [Male   |-> rs.Male + Bump(male),
                                Female |-> rs.Female + Bump(female)])]

\* the accumulators after one person is counted under (zone, desig)
countPerson(acc, zone, desig, cat, rel, male, female, one) ==
    LET zm == IF zone \in DOMAIN acc.zmap THEN acc.zmap[zone] ELSE EmptyMap
        st == IF desig \in DOMAIN zm THEN zm[desig] ELSE NewDemoStats
    IN  [zmap          |-> Put(acc.zmap, zone,
                               Put(zm, desig,
                                   countIn(st, cat, rel, male, female, one))),
         totalMale     |-> acc.totalMale + Bump(male),
         totalFemale   |-> acc.totalFemale + Bump(female),
         CATEGORY_WISE |-> Put(acc.CATEGORY_WISE, cat,
                               (IF cat \in DOMAIN acc.CATEGORY_WISE
                                THEN acc.CATEGORY_WISE[cat] ELSE 0) + 1)]

\* the demographics step with the total counting classified persons only
demoStep_classifiedTotal(e, acc) ==
    IF e.Zone = <<>> \/ e.Designation = <<>> THEN acc
    ELSE LET g == ToUpper(TrimSpace(e.Gender))
         IN  countPerson(acc, ToUpper(TrimSpace(e.Zone)), TrimSpace(e.Designation),
                         IF e.SelectionCategory = <<>> THEN UNKNOWN
                         ELSE e.SelectionCategory,
                         IF e.Religion = <<>> THEN UNKNOWN ELSE e.Religion,
                         isMale(g), isFemale(g),
                         Bump(isMale(g) \/ isFemale(g)))

\* the demographics step without the filter on zone and designation
demoStep_noFilter(e, acc) ==
    LET g == ToUpper(TrimSpace(e.Gender))
    IN  countPerson(acc, ToUpper(TrimSpace(e.Zone)), TrimSpace(e.Designation),
                    IF e.SelectionCategory = <<>> THEN UNKNOWN
                    ELSE e.SelectionCategory,
                    IF e.Religion = <<>> THEN UNKNOWN ELSE e.Religion,
                    isMale(g), isFemale(g), 1)

\* lines 1433-1481: one person record in the demographics loop
demoStep(e, acc) ==
    IF e.Zone = <<>> \/ e.Designation = <<>> THEN acc
    ELSE LET g == ToUpper(TrimSpace(e.Gender))
         IN  countPerson(acc, ToUpper(TrimSpace(e.Zone)), TrimSpace(e.Designation),
                         IF e.SelectionCategory = <<>> THEN UNKNOWN
                         ELSE e.SelectionCategory,
                         IF e.Religion = <<>> THEN UNKNOWN ELSE e.Religion,
                         isMale(g), isFemale(g), 1)

\* lines 1432-1482: the loop over EMP (a map: the order is not fixed; the
\* steps commute)
RECURSIVE demoLoop(_, _, _)
demoLoop(emp, ids, acc) ==
    IF ids = {} THEN acc
    ELSE LET id == CHOOSE x \in ids : TRUE
         IN  demoLoop(emp, ids \ {id}, demoStep(emp[id], acc))

\* lines 1493-1502: the table, zones and designations in ascending order
demoZones(zmap) ==
    LET zs == SortStrings(DOMAIN zmap)
    IN  [i \in 1..Len(zs) |->
            LET ds == SortStrings(DOMAIN zmap[zs[i]])
            IN  [Zone |-> zs[i],
                 Designations |->
                     [j \in 1..Len(ds) |->
                         [Designation |-> ds[j], Stats |-> zmap[zs[i]][ds[j]]]]]]

\* the orders in which a range over a map can visit the keys S
Orderings(S) ==
    {f \in [1..Cardinality(S) -> S] : \A i, j \in DOMAIN f : f[i] = f[j] => i = j}

\* the less function of toSorted without the comparison of the keys
kvLess_noTie(a, b) == a.V > b.V

\* lines 1400-1405 (v7: 730-735): greater count first, equal counts by key
kvLess(a, b) == IF a.V = b.V THEN LessStr(a.K, b.K) ELSE a.V > b.V

\* lines 1395-1407 (v7: 725-737): the pairs of the map, appended in the
\* order the range visits them and sorted by sort.Slice, which is not
\* stable: every arrangement in which no pair is less than the one before it
\* is an outcome for some order of the range
toSorted(m) ==
    {arr \in Orderings({[K |-> k, V |-> m[k]] : k \in DOMAIN m}) :
        \A i \in 1..(Len(arr) - 1) : ~kvLess(arr[i + 1], arr[i])}

\* lines 1408-1413 (v7: 738-743)
take(a, n) == SubSeq(a, 1, IF n > Len(a) THEN Len(a) ELSE n)

\* the number of pairs of a ranked summary: the 10 of lines 1415-1416
TopN == 10

\* strconv.Itoa of a count
RECURSIVE Itoa(_)
Itoa(n) ==
    LET d == <<"0","1","2","3","4","5","6","7","8","9">>
    IN  IF n < 10 THEN <<d[n + 1]>> ELSE Itoa(n \div 10) \o <<d[(n % 10) + 1]>>

\* lines 1281-1282 and 1329-1334: zoneCounts and desigCounts, one more for
\* every roster row that has an id
RECURSIVE rosterCounts(_, _, _)
rosterCounts(rows, m, acc) ==
    IF rows = <<>> THEN acc
    ELSE LET r == Head(rows)
             id == normalizeEmpID(get(r, m, <<colEmployeeID, colEmpID>>))
             z == ToUpper(TrimSpace(get(r, m, <<colZoneID, colZoneName, colZone>>)))
             zoneName == IF z = <<>> THEN UNKNOWN ELSE z
             des == get(r, m, <<colDesignation>>)
             d == IF des = <<>> THEN UNKNOWN ELSE des
             more == [zone  |-> Put(acc.zone, zoneName,
                                    (IF zoneName \in DOMAIN acc.zone
                                     THEN acc.zone[zoneName] ELSE 0) + 1),
                      desig |-> Put(acc.desig, d,
                                    (IF d \in DOMAIN acc.desig
                                     THEN acc.desig[d] ELSE 0) + 1)]
         IN  IF id = <<>> THEN rosterCounts(Tail(rows), m, acc)
             ELSE rosterCounts(Tail(rows), m, more)

NoCounts == [zone |-> EmptyMap, desig |-> EmptyMap]

\* lines 1214-1503: buildAll, reading Basic.csv as bFile and Services.csv
\* as sFile
buildAll(bFile, sFile) ==
    \E b \in {readCSV(bFile)}, s \in {readCSV(sFile)} :
    \E bIdx \in {idxMap(b.header)}, sIdx \in {idxMap(s.header)} :
    \E L1 \in {lookupsFromBasic(b.rows, bIdx,
                  [email |-> emailByEmpID, name |-> nameByEmpID,
                   gender |-> genderByEmpID, cat |-> catByEmpID,
                   marital |-> maritalByEmpID])} :
    \E S1 \in {lookupsFromServices(s.rows, sIdx,
                  [doj |-> EmptyMap, cat |-> L1.cat, marital |-> L1.marital])} :
    \E L2 \in {[L1 EXCEPT !.cat = S1.cat, !.marital = S1.marital]} :
    \E emp \in {buildEMP(b.rows, bIdx, L2, S1.doj, EmptyMap)} :
    \E demo \in {demoLoop(emp, DOMAIN emp, NoDemo)} :
    \E counts \in {rosterCounts(b.rows, bIdx, NoCounts)} :
    \E zTop \in {take(a, TopN) : a \in toSorted(counts.zone)},
       dTop \in {take(a, TopN) : a \in toSorted(counts.desig)} :
        /\ ZLBL' = [i \in 1..Len(zTop) |-> zTop[i].K]
        /\ ZVAL' = [i \in 1..Len(zTop) |-> Itoa(zTop[i].V)]
        /\ DLBL' = [i \in 1..Len(dTop) |-> dTop[i].K]
        /\ DVAL' = [i \in 1..Len(dTop) |-> Itoa(dTop[i].V)]
        /\ bRows' = b.rows
        /\ sRows' = s.rows
        /\ bm' = bIdx
        /\ sm' = sIdx
        /\ emailByEmpID' = L2.email
        /\ nameByEmpID' = L2.name
        /\ genderByEmpID' = L2.gender
        /\ catByEmpID' = L2.cat
        /\ maritalByEmpID' = L2.marital
        /\ EMP' = emp
        /\ CATEGORY_WISE' = demo.CATEGORY_WISE
        /\ GENDER_WISE' = [Male |-> demo.totalMale, Female |-> demo.totalFemale]
        /\ DEMO_ZONES' = demoZones(demo.zmap)
        /\ passes' = passes + 1
        /\ UNCHANGED offBuild

\* what a process that has just started computes from the rows of a pass
freshLookups(brows, bidx, srows, sidx) ==
    LET L1 == lookupsFromBasic(brows, bidx,
                  [email |-> EmptyMap, name |-> EmptyMap, gender |-> EmptyMap,
                   cat |-> EmptyMap, marital |-> EmptyMap])
        S1 == lookupsFromServices(srows, sidx,
                  [doj |-> EmptyMap, cat |-> L1.cat, marital |-> L1.marital])
    IN  [L1 EXCEPT !.cat = S1.cat, !.marital = S1.marital] @@ [doj |-> S1.doj]

SeqsUpTo(S, n) == UNION {[1..k -> S] : k \in 0..n}

\* Basic.csv: id, email, sex, marital status, zone, designation, religion
RosterHeader == <<colEmployeeID, colEmail, colGender, colMaritalStatus,
                  colZone, colDesignation, colReligion>>

E1 == <<"a","@","b">>

RosterRowChoices ==
    { <<<<"7">>, E1, <<"m">>, <<"W">>, <<"a">>, <<"T">>, <<"h">>>>,
      <<<<" ","7",".","0">>, <<>>, <<"F">>, <<>>, <<" ">>, <<"T">>, <<>>>>,
      <<<<"8">>, <<>>, <<"x">>, <<>>, <<"a">>, <<"T">>, <<>>>>,
      <<<<"8">>, E1, <<>>, <<>>, <<>>, <<>>, <<"h">>>>,
      <<<<"n","/","a">>, E1, <<"F">>, <<"W">>, <<"a">>, <<"T">>, <<>>>>,
      <<<<"9">>, <<>>, <<"F">>, <<>>, <<"NBSP">>, <<"C">>, <<>>>> }

\* Services.csv: id, date of joining, applied category, category, marital
\* status
HistoryHeader == <<colEmployeeID, colDateOfJoining, colAppliedCategory,
                   colCategory, colMaritalStatus>>

HistoryRowChoices ==
    { <<<<"7">>, D1, <<>>, <<"NBSP","s","c">>, <<"S">>>>,
      <<<<"7",".","0">>, <<>>, <<>>, <<>>, <<"D">>>>,
      <<<<"8">>, D2, <<"s","t">>, <<"s","c">>, <<>>>> }

RosterFiles ==
    {[header |-> RosterHeader, rows |-> rs] :
        rs \in SeqsUpTo(RosterRowChoices, MaxRoster)}

HistoryFiles ==
    {[header |-> HistoryHeader, rows |-> rs] :
        rs \in SeqsUpTo(HistoryRowChoices, MaxHistory)}

\* main, line 1514: the first pass
Startup ==
    /\ passes = 0
    /\ \E bFile \in RosterFiles, sFile \in HistoryFiles : buildAll(bFile, sFile)

\* the /refresh handler, lines 1524-1527: a later pass in the same process
Refresh ==
    /\ passes >= 1
    /\ passes < MaxPasses
    /\ \E bFile \in RosterFiles, sFile \in HistoryFiles : buildAll(bFile, sFile)

\* main, line 1510, has created the cache directory before the first pass
\* (nothing in buildAll reads it)
BuildInit == Init /\ cacheDirExists

BuildNext == Startup \/ Refresh

SpecBuild == BuildInit /\ [][BuildNext]_vars

-----------------------------------------------------------------------------
(***************************************************************************)
(* v16: the text functions, called on the text of a cell.                  *)
(***************************************************************************)
\* the pieces the text of a cell is put together from
Chunks ==
    { <<"1","1","1","1","1">>, <<"2","2","2","2","2","2">>,
      <<"a">>, <<" ">>, <<".","0">>, <<"BOM">> }

RECURSIVE Flatten(_)
Flatten(parts) == IF parts = <<>> THEN <<>> ELSE Head(parts) \o Flatten(Tail(parts))

Texts == {Flatten(p) : p \in SeqsUpTo(Chunks, MaxParts)}

\* handleAPIEmployee, line 1569: the id of the request, as it was sent
CallNormalizeEmpID ==
    /\ called' = [fn |-> "normalizeEmpID", arg |-> text,
                  val |-> normalizeEmpID(text)]
    /\ UNCHANGED <<text, cacheVars, buildVars, staffVars, raceVars>>

\* buildAll, lines 1290-1291 and 1344-1345: the school id of a cell that
\* get has read
CallDigitsOnlyKey ==
    /\ called' = [fn |-> "digitsOnlyKey", arg |-> norm(text),
                  val |-> digitsOnlyKey(norm(text))]
    /\ UNCHANGED <<text, cacheVars, buildVars, staffVars, raceVars>>

CallInit ==
    /\ CacheInit /\ cacheDirExists
    /\ BuildFresh
    /\ StaffFresh
    /\ RaceFresh
    /\ text \in Texts
    /\ called = NoCall

CallNext == CallNormalizeEmpID \/ CallDigitsOnlyKey

SpecCall == CallInit /\ [][CallNext]_vars

-----------------------------------------------------------------------------
(***************************************************************************)
(* Staffing: the school records, the v7 staffing list and the v16 school   *)
(* API.                                                                    *)
(***************************************************************************)
\* pupils per teacher: the 40.0 of lines 675 and 1622
PerTeacher == 40

DigitValue(c) == CHOOSE n \in 0..9 : <<"0","1","2","3","4","5","6","7","8","9">>[n + 1] = c

RECURSIVE decimal(_)
decimal(s) == IF s = <<>> THEN 0
              ELSE 10 * decimal(SubSeq(s, 1, Len(s) - 1)) + DigitValue(s[Len(s)])

\* strconv.Atoi with its error dropped: an optional sign and decimal digits,
\* 0 for any other text (texts that leave the range of int are not drawn)
Atoi(s) ==
    LET signed == s # <<>> /\ s[1] \in {"+", "-"}
        body == IF signed THEN Tail(s) ELSE s
    IN  IF body = <<>> \/ \E k \in 1..Len(body) : ~IsDigit(body[k]) THEN 0
        ELSE IF signed /\ s[1] = "-" THEN 0 - decimal(body)
        ELSE decimal(body)

atoiSafe(s) ==
    LET t == stripDot0(s)
    IN  IF t = <<>> THEN 0 ELSE Atoi(t)

\* lines 1343-1376: the school records of the DBT rows, a later row of the
\* same id replacing an earlier one (SCH starts empty, line 1339)
RECURSIVE buildSCH(_, _, _)
buildSCH(rows, m, sch) ==
    IF rows = <<>> THEN sch
    ELSE LET r == Head(rows)
             sname == get(r, m, <<colSchoolNameAndID, colSchoolName>>)
             sid == digitsOnlyKey(sname)
             z == ToUpper(TrimSpace(get(r, m, <<colZoneID, colZoneName, colZone>>)))
             s == [ID         |-> sid,
                   Name       |-> sname,
                   Zone       |-> IF z = <<>> THEN UNKNOWN ELSE z,
                   MaxPresent |-> atoiSafe(get(r, m, <<colMaxPresent>>))]
         IN  IF sid = <<>> THEN buildSCH(Tail(rows), m, sch)
             ELSE buildSCH(Tail(rows), m, Put(sch, sid, s))

kwTeacher == <<"t","e","a","c","h","e","r">>

kwPrincipal == <<"p","r","i","n","c","i","p","a","l">>

kwSpecialEducator ==
    <<"s","p","e","c","i","a","l"," ","e","d","u","c","a","t","o","r">>

\* the designation of a record holds the keyword, whatever the case
hasKeyword_caseSensitive(e, kw) == Contains(e.Designation, kw)

hasKeyword(e, kw) == Contains(ToLower(e.Designation), kw)

\* the records of EMP that the loops of lines 662 and 1606 pick for a unit
atUnit(emp, sid) == {id \in DOMAIN emp : emp[id].SchoolID = sid}

\* int(math.Ceil(float64(n) / 40.0)); \div rounds down
neededTeachers(n) == 0 - ((0 - n) \div PerTeacher)

\* the ratio as a fraction: 0.0, or MaxPresent over the number of teachers
ZeroRatio == [num |-> 0, den |-> 1]

loadRatio_unguarded(maxPresent, actualT) == [num |-> maxPresent, den |-> actualT]

\* lines 677-680 and 1627-1630
loadRatio(maxPresent, actualT) ==
    IF actualT > 0 THEN [num |-> maxPresent, den |-> actualT] ELSE ZeroRatio

\* lines 657-693: the staffing record of one school in v7; a record counts
\* for the first keyword of the else-if chain that its designation holds
SchoolStaff_v7(sid, s, emp) ==
    LET here == atUnit(emp, sid)
        actualT == Cardinality({id \in here : hasKeyword(emp[id], kwTeacher)})
        hasP == \E id \in here : /\ ~hasKeyword(emp[id], kwTeacher)
                                 /\ hasKeyword(emp[id], kwPrincipal)
        hasSE == \E id \in here : /\ ~hasKeyword(emp[id], kwTeacher)
                                  /\ ~hasKeyword(emp[id], kwPrincipal)
                                  /\ hasKeyword(emp[id], kwSpecialEducator)
        neededT == neededTeachers(s.MaxPresent)
    IN  [ID             |-> sid,
         Name           |-> s.Name,
         Zone           |-> s.Zone,
         NeededTeachers |-> neededT,
         ActualTeachers |-> actualT,
         SurplusVacancy |-> actualT - neededT,
         HasPrincipal   |-> hasP,
         HasSpecialEdu  |-> hasSE,
         TotalStaff     |-> Cardinality(here),
         Ratio          |-> loadRatio(s.MaxPresent, actualT)]

\* lines 1601-1639: the staffing record of the school API; every keyword is
\* tested on its own and the needed teachers are floored at zero
SchoolStaff(id, s, emp) ==
    LET here == atUnit(emp, id)
        actualT == Cardinality({e \in here : hasKeyword(emp[e], kwTeacher)})
        ceiled == neededTeachers(s.MaxPresent)
        neededT == IF ceiled < 0 THEN 0 ELSE ceiled
    IN  [ID             |-> s.ID,
         Name           |-> s.Name,
         Zone           |-> s.Zone,
         NeededTeachers |-> neededT,
         ActualTeachers |-> actualT,
         SurplusVacancy |-> actualT - neededT,
         HasPrincipal   |-> \E e \in here : hasKeyword(emp[e], kwPrincipal),
         HasSpecialEdu  |-> \E e \in here : hasKeyword(emp[e], kwSpecialEducator),
         TotalStaff     |-> Cardinality(here),
         Ratio          |-> loadRatio(s.MaxPresent, actualT)]

\* lines 655-694 of v7's main: one staffing record per school, sorted by the
\* name of the school (a name holds the id, so no two are equal)
BuildStaff ==
    /\ STAFF' = LET byName == [n \in {SCH[sid].Name : sid \in DOMAIN SCH} |->
                                  CHOOSE sid \in DOMAIN SCH : SCH[sid].Name = n]
                    names == SortStrings(DOMAIN byName)
                IN  [i \in 1..Len(names) |->
                        SchoolStaff_v7(byName[names[i]], SCH[byName[names[i]]], EMP)]
    /\ UNCHANGED <<SCH, resp, cacheVars, buildVars, callVars, raceVars>>

\* lines 1582-1641: GET /api/school?id=q
handleAPISchool(q) ==
    \E id \in {digitsOnly(q)} :
        /\ IF id = <<>> THEN resp' = [status |-> 400]
           ELSE IF id \notin DOMAIN SCH THEN resp' = [status |-> 404]
           ELSE \E order \in Orderings(atUnit(EMP, id)) :
                    resp' = [status |-> 200,
                             School |-> SCH[id],
                             Roster |-> [i \in DOMAIN order |-> EMP[order[i]]],
                             Staff  |-> SchoolStaff(id, SCH[id], EMP)]
        /\ UNCHANGED <<SCH, STAFF, cacheVars, buildVars, callVars, raceVars>>

\* the number of schools and of persons drawn
MaxSchools == 2

MaxStaff == 2

SchoolNames == << <<"T"," ","1","1","1","1","1">>, <<"S"," ","2","2","2","2","2">>,
                  <<"R"," ","3","3","3","3","3">> >>

PresentChoices ==
    { <<"-","8","0">>, <<"-","3","0">>, <<"0">>, <<"4","1">>, <<"8","0",".","0">> }

\* DBT.csv: school, zone, greatest number of pupils present
DBTHeader == <<colSchoolNameAndID, colZone, colMaxPresent>>

DBTFiles ==
    UNION {{[header |-> DBTHeader,
             rows   |-> [i \in 1..k |-> <<SchoolNames[i], <<"A">>, p[i]>>]] :
                p \in [1..k -> PresentChoices]} : k \in 0..MaxSchools}

PersonIDs == << <<"7">>, <<"8">>, <<"9">> >>

DesignationChoices ==
    { <<"T","e","a","c","h","e","r">>,
      <<"P","R","I","N","C","I","P","A","L">>,
      <<"S","p","e","c","i","a","l"," ","E","d","u","c","a","t","o","r">>,
      <<"P","r","i","n","c","i","p","a","l"," ","T","e","a","c","h","e","r">>,
      <<"C","l","e","r","k">> }

PostingChoices == { SchoolNames[1], SchoolNames[2], <<"n","o","n","e">> }

\* Basic.csv: id, school, designation
StaffHeader == <<colEmployeeID, colSchoolNameAndID, colDesignation>>

StaffFiles ==
    UNION {{[header |-> StaffHeader,
             rows   |-> [i \in 1..k |-> <<PersonIDs[i], w[i][1], w[i][2]>>]] :
                w \in [1..k -> PostingChoices \X DesignationChoices]} :
           k \in 0..MaxStaff}

QueryChoices ==
    { <<"1","1","1","1","1">>, <<" ","2","2","2","2","2">>, <<"3","3","3","3","3">>,
      <<"x">> }

noLookups == [email |-> EmptyMap, name |-> EmptyMap, gender |-> EmptyMap,
              cat |-> EmptyMap, marital |-> EmptyMap]

\* the process after its files are loaded: the persons and the schools are
\* in EMP and SCH; the lookups and aggregates of the build, which the
\* staffing code does not read, are left out
StaffInit ==
    /\ CacheInit /\ cacheDirExists
    /\ CallFresh
    /\ bRows = <<>> /\ sRows = <<>>
    /\ bm = EmptyMap /\ sm = EmptyMap
    /\ emailByEmpID = EmptyMap
    /\ nameByEmpID = EmptyMap
    /\ genderByEmpID = EmptyMap
    /\ catByEmpID = EmptyMap
    /\ maritalByEmpID = EmptyMap
    /\ DEMO_ZONES = <<>>
    /\ CATEGORY_WISE = EmptyMap
    /\ GENDER_WISE = EmptyMap
    /\ passes = 0
    /\ ZLBL = <<>> /\ ZVAL = <<>> /\ DLBL = <<>> /\ DVAL = <<>>
    /\ \E bFile \in StaffFiles :
         \E b \in {readCSV(bFile)} :
            EMP = buildEMP(b.rows, idxMap(b.header), noLookups, EmptyMap, EmptyMap)
    /\ \E dFile \in DBTFiles :
         \E d \in {readCSV(dFile)} :
            SCH = buildSCH(d.rows, idxMap(d.header), EmptyMap)
    /\ STAFF = <<>>
    /\ resp = NoResp
    /\ RaceFresh

ServeSchool == \E q \in QueryChoices : handleAPISchool(q)

StaffNext == BuildStaff \/ ServeSchool

SpecStaff == StaffInit /\ [][StaffNext]_vars

-----------------------------------------------------------------------------
(***************************************************************************)
(* v16: the ranked summaries, ageFromDOB, get and norm, each called on     *)
(* inputs of its own; a behaviour is one call.                             *)
(***************************************************************************)
\* the greatest count of a key and the greatest n handed to take
MaxCount == 2

MaxTake == 3

CountKeys == { <<"A">>, <<"A","B">>, <<"B">> }

CountMaps == UNION {[D -> 1..MaxCount] : D \in SUBSET CountKeys}

\* lines 1415-1416: take(toSorted(counts), n)
CallTake ==
    /\ called = NoCall
    /\ \E m \in CountMaps, n \in 0..MaxTake :
         \E arr \in toSorted(m) :
            called' = [fn |-> "take", arg |-> [m |-> m, n |-> n], val |-> take(arr, n)]
    /\ UNCHANGED <<text, cacheVars, buildVars, staffVars, raceVars>>

\* the month names of package time, upper-cased (they are matched without
\* regard to case)
shortMonthNames ==
    << <<"J","A","N">>, <<"F","E","B">>, <<"M","A","R">>, <<"A","P","R">>,
       <<"M","A","Y">>, <<"J","U","N">>, <<"J","U","L">>, <<"A","U","G">>,
       <<"S","E","P">>, <<"O","C","T">>, <<"N","O","V">>, <<"D","E","C">> >>

longMonthNames ==
    << <<"J","A","N","U","A","R","Y">>, <<"F","E","B","R","U","A","R","Y">>,
       <<"M","A","R","C","H">>, <<"A","P","R","I","L">>,
       <<"M","A","Y">>, <<"J","U","N","E">>,
       <<"J","U","L","Y">>, <<"A","U","G","U","S","T">>,
       <<"S","E","P","T","E","M","B","E","R">>, <<"O","C","T","O","B","E","R">>,
       <<"N","O","V","E","M","B","E","R">>, <<"D","E","C","E","M","B","E","R">> >>

\* strings.Split(s, sep) for a one-character sep
RECURSIVE Split(_, _)
Split(s, sep) ==
    IF \A k \in 1..Len(s) : s[k] # sep THEN <<s>>
    ELSE LET i == CHOOSE k \in 1..Len(s) : s[k] = sep /\ \A j \in 1..(k - 1) : s[j] # sep
         IN  <<SubSeq(s, 1, i - 1)>> \o Split(SubSeq(s, i + 1, Len(s)), sep)

isLeap(y) == y % 4 = 0 /\ (y % 100 # 0 \/ y % 400 = 0)

daysIn(m, y) ==
    IF m = 2 THEN (IF isLeap(y) THEN 29 ELSE 28)
    ELSE IF m \in {4, 6, 9, 11} THEN 30 ELSE 31

NoDate == [ok |-> FALSE, year |-> 0, month |-> 0, day |-> 0]

allDigits(p) == p # <<>> /\ \A k \in 1..Len(p) : IsDigit(p[k])

\* the month a part stands for under the layouts that can apply, 0 if none:
\* Jan (every layout), January and 01 (layouts with "/" only)
monthOf(p, slash) ==
    LET u == ToUpper(p)
        short == {i \in 1..12 : shortMonthNames[i] = u}
        long == {i \in 1..12 : longMonthNames[i] = u}
    IN  IF short # {} THEN CHOOSE i \in short : TRUE
        ELSE IF slash /\ long # {} THEN CHOOSE i \in long : TRUE
        ELSE IF slash /\ Len(p) = 2 /\ allDigits(p) /\ decimal(p) \in 1..12 THEN decimal(p)
        ELSE 0

\* time.Parse under one of the eight layouts of lines 1114-1117: a day of one
\* or two digits, a month, a year of four digits, and a day the month has
parseParts(parts, slash) ==
    IF /\ Len(parts) = 3
       /\ Len(parts[1]) \in 1..2 /\ allDigits(parts[1])
       /\ Len(parts[3]) = 4 /\ allDigits(parts[3])
       /\ monthOf(parts[2], slash) # 0
       /\ decimal(parts[1]) \in 1..daysIn(monthOf(parts[2], slash), decimal(parts[3]))
    THEN [ok |-> TRUE, year |-> decimal(parts[3]),
          month |-> monthOf(parts[2], slash), day |-> decimal(parts[1])]
    ELSE NoDate

\* lines 1104-1127; the change of case of lines 1110-1113 has no effect on
\* the match of a month name
parseDMYFlexible(s) ==
    LET t == TrimSpace(s)
    IN  IF t = <<>> THEN NoDate
        ELSE IF Len(Split(t, "/")) > 1 THEN parseParts(Split(t, "/"), TRUE)
        ELSE parseParts(Split(t, "-"), FALSE)

\* the age with the day of the month left out of the comparison
ageFromDOB_monthOnly(dob, today) ==
    LET d == parseDMYFlexible(dob)
        age == today.year - d.year - Bump(today.month < d.month)
    IN  IF ~d.ok THEN 0 ELSE IF age < 0 THEN 0 ELSE age

\* lines 1128-1142, today being the date of time.Now()
ageFromDOB(dob, today) ==
    LET d == parseDMYFlexible(dob)
        age == today.year - d.year
               - Bump(today.month < d.month
                      \/ (today.month = d.month /\ today.day < d.day))
    IN  IF ~d.ok THEN 0 ELSE IF age < 0 THEN 0 ELSE age

DOBChoices ==
    { <<"2","9","/","F","e","b","/","2","0","0","0">>,
      <<"2","9","/","0","2","/","2","0","0","0">>,
      <<"2","9","-","F","e","b","-","2","0","0","0">>,
      <<" ","2","9","/","f","e","b","r","u","a","r","y","/","2","0","0","0">>,
      <<"2","9","/","F","e","b","/","2","0","0","1">>,
      <<"1","/","M","a","r","/","2","0","2","4">>,
      <<"0","1","/","0","3","/","2","0","3","0">>,
      <<"1","5","/","J","A","N","/","1","9","9","0">>,
      <<"1","/","3","/","2","0","2","4">>,
      <<"2","0","0","0","-","0","2","-","2","9">>,
      <<"2","9","-","0","2","-","2","0","0","0">>,
      <<>> }

TodayChoices ==
    { [year |-> 2023, month |-> 2, day |-> 28], [year |-> 2023, month |-> 3, day |-> 1],
      [year |-> 2024, month |-> 2, day |-> 28], [year |-> 2024, month |-> 2, day |-> 29],
      [year |-> 2024, month |-> 3, day |-> 1], [year |-> 2024, month |-> 1, day |-> 15],
      [year |-> 1999, month |-> 12, day |-> 31] }

CallAgeFromDOB ==
    /\ called = NoCall
    /\ \E dob \in DOBChoices, today \in TodayChoices :
         called' = [fn |-> "ageFromDOB", arg |-> [dob |-> dob, today |-> today],
                    val |-> ageFromDOB(dob, today)]
    /\ UNCHANGED <<text, cacheVars, buildVars, staffVars, raceVars>>

\* the longest text handed to norm
MaxText == 4

NormChars == {"a", " ", "TAB", "NBSP", "BOM"}

\* line 1100: norm on the text of a cell; the result is normalised once more
\* by callers such as stripDot0 (line 1015)
CallNorm ==
    /\ called = NoCall
    /\ \E s \in SeqsUpTo(NormChars, MaxText) :
         called' = [fn |-> "norm", arg |-> s, val |-> norm(s), again |-> norm(norm(s))]
    /\ UNCHANGED <<text, cacheVars, buildVars, staffVars, raceVars>>

\* the greatest number of columns of a header and of cells of a row
MaxCols == 3

HeaderCells ==
    { colZone, <<"z","o","n","e","NBSP","I","D">>, colZoneName, <<"o","t","h","e","r">> }

CellChoices == { <<>>, <<"x">>, <<" ","y","NBSP">> }

NameLists == { <<colZoneID, colZoneName, colZone>>, <<colZone>>, <<colEmpID>> }

\* lines 1094-1103 on a row and on the index of a header as readCSV and idxMap
\* make it (lines 1049-1093)
CallGet ==
    /\ called = NoCall
    /\ \E h \in SeqsUpTo(HeaderCells, MaxCols), rec \in SeqsUpTo(CellChoices, MaxCols),
          names \in NameLists :
         \E m \in {idxMap([i \in 1..Len(h) |-> norm(h[i])])} :
            called' = [fn |-> "get", arg |-> [rec |-> rec, m |-> m, names |-> names],
                       val |-> get(rec, m, names)]
    /\ UNCHANGED <<text, cacheVars, buildVars, staffVars, raceVars>>

PureInit == Init /\ cacheDirExists

PureNext == CallTake \/ CallAgeFromDOB \/ CallNorm \/ CallGet

SpecPure == PureInit /\ [][PureNext]_vars

-----------------------------------------------------------------------------
(***************************************************************************)
(* v16: the person map while /refresh runs.  net/http serves every request *)
(* in a goroutine of its own and the source has no lock, so the steps of   *)
(* buildAll that write the person map interleave with the handlers and     *)
(* with the steps of another /refresh.  The lookups and the aggregates of  *)
(* a pass are left out here.                                               *)
(***************************************************************************)
\* the rows of a roster
MaxRaceRows == 2

\* Basic.csv: id, designation
RaceHeader == <<colEmployeeID, colDesignation>>

RaceRowChoices ==
    { <<<<"7">>, <<"T">>>>, <<<<"8">>, <<"T">>>>, <<<<"7">>, <<"C">>>> }

RaceFiles ==
    {[header |-> RaceHeader, rows |-> rs] : rs \in SeqsUpTo(RaceRowChoices, MaxRaceRows)}

\* the person map a pass over the file builds when nothing else runs
tableOf(file) ==
    LET b == readCSV(file)
    IN  buildEMP(b.rows, idxMap(b.header), noLookups, EmptyMap, EmptyMap)

\* a map access can run into a write of the map by a /refresh other than p
\* (0: by any /refresh); the runtime then may stop the process
writeInFlight(p) == \E q \in Refreshers \ {p} : pc[q] = "fill" /\ todo[q] # <<>>

\* the build state that the steps below do not touch
raceKept == <<sRows, sm, emailByEmpID, nameByEmpID, genderByEmpID, catByEmpID,
              maritalByEmpID, DEMO_ZONES, CATEGORY_WISE, GENDER_WISE,
              ZLBL, ZVAL, DLBL, DVAL>>

\* lines 1524-1525 and 1217-1220: a /refresh request enters buildAll and
\* reads the roster
RefreshBegin(p) ==
    /\ ~crashed
    /\ pc[p] = "idle"
    /\ passes <= MaxPasses
    /\ \E f \in RaceFiles :
         \E b \in {readCSV(f)} :
            /\ bRows' = b.rows
            /\ bm' = idxMap(b.header)
            /\ todo' = [todo EXCEPT ![p] = b.rows]
            /\ tables' = tables \cup {tableOf(f)}
    /\ pc' = [pc EXCEPT ![p] = "reset"]
    /\ passes' = passes + 1
    /\ UNCHANGED <<EMP, crashed, raceKept, cacheVars, callVars, staffVars>>

\* line 1280: EMP = map[string]Emp{}
RefreshReset(p) ==
    /\ ~crashed
    /\ pc[p] = "reset"
    /\ EMP' = EmptyMap
    /\ pc' = [pc EXCEPT ![p] = "fill"]
    /\ UNCHANGED <<bRows, bm, passes, todo, tables, crashed, raceKept,
                   cacheVars, callVars, staffVars>>

\* lines 1284-1327: one turn of the loop, EMP[id] = e on the map EMP holds
\* now; a write that runs into the write of another /refresh may stop the
\* process (concurrent map writes)
RefreshFill(p) ==
    /\ ~crashed
    /\ pc[p] = "fill"
    /\ todo[p] # <<>>
    /\ \/ /\ EMP' = buildEMP(<<Head(todo[p])>>, bm, noLookups, EmptyMap, EMP)
          /\ todo' = [todo EXCEPT ![p] = Tail(todo[p])]
          /\ UNCHANGED crashed
       \/ /\ writeInFlight(p)
          /\ crashed' = TRUE
          /\ UNCHANGED <<EMP, todo>>
    /\ UNCHANGED <<bRows, bm, passes, pc, tables, raceKept, cacheVars, callVars,
                   staffVars>>

\* lines 1335 and 1526: the loop is over, the request is answered
RefreshEnd(p) ==
    /\ ~crashed
    /\ pc[p] = "fill"
    /\ todo[p] = <<>>
    /\ pc' = [pc EXCEPT ![p] = "idle"]
    /\ UNCHANGED <<bRows, bm, passes, EMP, todo, tables, crashed, raceKept,
                   cacheVars, callVars, staffVars>>

\* lines 1534-1565: the page carries the whole person map
handleIndex ==
    /\ ~crashed
    /\ resp = NoResp
    /\ \/ /\ resp' = [status |-> 200, handler |-> "index", EMP |-> EMP]
          /\ UNCHANGED crashed
       \/ /\ writeInFlight(0)
          /\ crashed' = TRUE
          /\ UNCHANGED resp
    /\ UNCHANGED <<SCH, STAFF, pc, todo, tables, buildVars, cacheVars, callVars>>

\* lines 1567-1580: GET /api/emp?id=q
handleAPIEmployee(q) ==
    /\ ~crashed
    /\ resp = NoResp
    /\ \E id \in {normalizeEmpID(q)} :
         \/ /\ resp' = IF id = <<>> THEN [status |-> 400, handler |-> "emp"]
                       ELSE IF id \notin DOMAIN EMP
                            THEN [status |-> 404, handler |-> "emp", id |-> id]
                       ELSE [status |-> 200, handler |-> "emp", id |-> id, e |-> EMP[id]]
            /\ UNCHANGED crashed
         \/ /\ id # <<>>
            /\ writeInFlight(0)
            /\ crashed' = TRUE
            /\ UNCHANGED resp
    /\ UNCHANGED <<SCH, STAFF, pc, todo, tables, buildVars, cacheVars, callVars>>

IDQueries == { <<"7">>, <<"8",".","0">>, <<"x">> }

BeginRefresh == \E p \in Refreshers : RefreshBegin(p)

ResetPersons == \E p \in Refreshers : RefreshReset(p)

FillPersons == \E p \in Refreshers : RefreshFill(p)

EndRefresh == \E p \in Refreshers : RefreshEnd(p)

ServeEmployee == \E q \in IDQueries : handleAPIEmployee(q)

\* main, lines 1514-1530: buildAll has run once, alone, before the server
\* listens
RaceInit ==
    /\ CacheInit /\ cacheDirExists
    /\ CallFresh
    /\ StaffFresh
    /\ sRows = <<>> /\ sm = EmptyMap
    /\ emailByEmpID = EmptyMap
    /\ nameByEmpID = EmptyMap
    /\ genderByEmpID = EmptyMap
    /\ catByEmpID = EmptyMap
    /\ maritalByEmpID = EmptyMap
    /\ DEMO_ZONES = <<>>
    /\ CATEGORY_WISE = EmptyMap
    /\ GENDER_WISE = EmptyMap
    /\ ZLBL = <<>> /\ ZVAL = <<>> /\ DLBL = <<>> /\ DVAL = <<>>
    /\ passes = 1
    /\ \E f \in RaceFiles :
         \E b \in {readCSV(f)} :
            /\ bRows = b.rows
            /\ bm = idxMap(b.header)
            /\ EMP = tableOf(f)
            /\ tables = {tableOf(f)}
    /\ pc = [p \in Refreshers |-> "idle"]
    /\ todo = [p \in Refreshers |-> <<>>]
    /\ crashed = FALSE

RaceNext ==
    \/ BeginRefresh \/ ResetPersons \/ FillPersons \/ EndRefresh
    \/ handleIndex \/ ServeEmployee

SpecRace == RaceInit /\ [][RaceNext]_vars

-----------------------------------------------------------------------------
(***************************************************************************)
(* Claims about the DOJ cache block (checked under SpecCache).             *)
(***************************************************************************)
\* the resolved id and the date of every row of Services.csv, as a run
\* reads them
svcView ==
    LET csv == readCSV(servFile)
        m == idxMap_v7(csv.header)
    IN  [i \in 1..Len(csv.rows) |->
            [id |-> stripDot0(get(csv.rows[i], m, <<colEmployeeID, colEmpID>>)),
             date |-> get(csv.rows[i], m, <<colDateOfJoining>>)]]

\* C4: a run rebuilds exactly when the cache file is absent (stat fails), or
\* its modification time is strictly older than that of Services.csv, or
\* -rebuild is set; otherwise (equal times included) it takes the load branch,
\* leaves the cache file alone and does not scan the rows.
C4_RebuildDecision ==
    path # "none" =>
        /\ (path = "rebuild") <=>
              (\/ ~seen.cache.exists
               \/ servMtime > seen.cache.mtime
               \/ seen.force)
        /\ path = "rebuild" => scanned
        /\ path # "rebuild" => ~scanned /\ cacheFile = seen.cache

\* C4 witness: equal modification times, rows present, the cache is reused
C4_Witness ==
    /\ path = "reuse"
    /\ seen.cache.mtime = servMtime
    /\ Len(servFile.rows) > 0
    /\ ~scanned

\* C5: after a rebuild the map's keys are exactly the ids of the rows with a
\* non-empty id and a non-empty date, each mapped to the date of the last
\* such row.
C5_RebuildMapping ==
    path = "rebuild" =>
        LET v == svcView
            good == {i \in DOMAIN v : v[i].id # <<>> /\ v[i].date # <<>>}
            last(k) == CHOOSE i \in good :
                          /\ v[i].id = k
                          /\ \A j \in good : v[j].id = k => j <= i
        IN  /\ DOMAIN dojByEmpID = {v[i].id : i \in good}
            /\ \A k \in DOMAIN dojByEmpID : dojByEmpID[k] = v[last(k)].date

\* C5 witness: two rows of one id with different dates, the later one kept,
\* and a row left out for want of a date
C5_Witness ==
    /\ path = "rebuild"
    /\ LET v == svcView
       IN  \E i, j \in DOMAIN v :
              /\ i < j
              /\ v[i].id = v[j].id
              /\ v[i].id # <<>>
              /\ v[i].date # <<>> /\ v[j].date # <<>>
              /\ v[i].date # v[j].date
              /\ dojByEmpID[v[i].id] = v[j].date

\* C6: after every rebuild the cache file exists and holds exactly the map
\* just rebuilt, also when the parent directory did not exist before the run.
C6_CacheWrittenAfterRebuild ==
    path = "rebuild" =>
        /\ cacheFile.exists
        /\ cacheFile.valid
        /\ cacheFile.obj = jsonMarshal(dojByEmpID)

\* whether a cache file can be read and parsed as an id -> date object
Loadable(file) ==
    /\ file.readable
    /\ file.valid
    /\ \A k \in DOMAIN file.obj : file.obj[k].t = "str"

\* C7: on the load branch, a cache file that cannot be read or parsed ends
\* the run fatally.
C7_FatalOnCorruptCache ==
    (path \in {"reuse", "fatal"} /\ ~Loadable(seen.cache)) => path = "fatal"

-----------------------------------------------------------------------------
(***************************************************************************)
(* Claims about buildAll.  They are stated over the rows the last pass     *)
(* read (bRows, sRows with their column maps bm, sm).                      *)
(***************************************************************************)
rosterID == [i \in 1..Len(bRows) |->
                normalizeEmpID(get(bRows[i], bm, <<colEmployeeID, colEmpID>>))]

historyID == [i \in 1..Len(sRows) |->
                normalizeEmpID(get(sRows[i], sm, <<colEmployeeID, colEmpID>>))]

rosterMarital == [i \in 1..Len(bRows) |->
                    get(bRows[i], bm, <<colMaritalStatus, colMarital>>)]

historyMarital == [i \in 1..Len(sRows) |->
                    get(sRows[i], sm, <<colMaritalStatus, colMarital>>)]

rosterEmail == [i \in 1..Len(bRows) |->
                    get(bRows[i], bm, <<colEmployeesEmailID, colEmail, colEmailID>>)]

\* the person records of a process that ran only the last pass
freshEMP ==
    LET F == freshLookups(bRows, bm, sRows, sm)
    IN  buildEMP(bRows, bm, F, F.doj, EmptyMap)

\* C1: after any sequence of passes the person records equal the records a
\* process that has just started builds from the inputs of the last pass;
\* nothing of an earlier pass survives.
C1_FreshRebuild == passes >= 1 => EMP = freshEMP

\* a second pass read a roster row of a known id with a blank email, and the
\* record still carries the email of the first pass
C1_StaleEmail ==
    /\ passes = 2
    /\ \E id \in DOMAIN EMP :
        /\ EMP[id].Email # <<>>
        /\ \A i \in 1..Len(bRows) : rosterID[i] = id => rosterEmail[i] = <<>>

RECURSIVE SumSeq(_)
SumSeq(s) == IF s = <<>> THEN 0 ELSE Head(s) + SumSeq(Tail(s))

\* the records counted in the cell (zone, desig)
cellMembers(zone, desig) ==
    {id \in DOMAIN EMP :
        /\ EMP[id].Zone # <<>>
        /\ EMP[id].Designation # <<>>
        /\ ToUpper(TrimSpace(EMP[id].Zone)) = zone
        /\ TrimSpace(EMP[id].Designation) = desig}

unclassified(id) ==
    LET g == ToUpper(TrimSpace(EMP[id].Gender))
    IN  ~isMale(g) /\ ~isFemale(g)

\* C2 as stated: in every (zone, designation) cell, whatever the sex text
\* of the records, total = total male + total female.
C2_TotalIsMalePlusFemale ==
    \A i \in 1..Len(DEMO_ZONES) :
        \A j \in 1..Len(DEMO_ZONES[i].Designations) :
            LET st == DEMO_ZONES[i].Designations[j].Stats
            IN  st.Total = st.TotalMale + st.TotalFemale

\* C2 amended: in every (zone, designation) cell, total = total male +
\* total female + the number of records of the cell whose sex text is
\* neither male nor female; the three are equal only without such records.
C2_TotalCountsUnclassified ==
    \A i \in 1..Len(DEMO_ZONES) :
        \A j \in 1..Len(DEMO_ZONES[i].Designations) :
            LET c == DEMO_ZONES[i].Designations[j]
                st == c.Stats
                mem == cellMembers(DEMO_ZONES[i].Zone, c.Designation)
            IN  /\ st.Total = st.TotalMale + st.TotalFemale
                              + Cardinality({id \in mem : unclassified(id)})
                /\ st.TotalMale + st.TotalFemale
                     = Cardinality({id \in mem : ~unclassified(id)})

C2_Witness ==
    \E i \in 1..Len(DEMO_ZONES) :
        \E j \in 1..Len(DEMO_ZONES[i].Designations) :
            LET st == DEMO_ZONES[i].Designations[j].Stats
            IN  st.Total = 2 /\ st.TotalMale = 1 /\ st.TotalFemale = 0

totalOfCells ==
    SumSeq([i \in 1..Len(DEMO_ZONES) |->
              SumSeq([j \in 1..Len(DEMO_ZONES[i].Designations) |->
                        DEMO_ZONES[i].Designations[j].Stats.Total])])

\* C3: the totals of all (zone, designation) cells add up to the number of
\* person records whose zone and designation are both non-empty.
C3_SumOfTotals ==
    totalOfCells = Cardinality({id \in DOMAIN EMP :
                                  EMP[id].Zone # <<>> /\ EMP[id].Designation # <<>>})

C3_Witness ==
    /\ totalOfCells >= 1
    /\ \E id \in DOMAIN EMP : EMP[id].Designation = <<>>

\* C9: after a pass the keys of EMP are exactly the non-empty resolved ids of
\* the roster rows, every record's ID is its key, and an id that only
\* Services.csv has gets no record.
C9_PersonKeySet ==
    passes >= 1 =>
        LET ids == {rosterID[i] : i \in 1..Len(bRows)} \ {<<>>}
        IN  /\ DOMAIN EMP = ids
            /\ \A k \in DOMAIN EMP : EMP[k].ID = k
            /\ \A j \in 1..Len(sRows) :
                   historyID[j] \notin ids => historyID[j] \notin DOMAIN EMP

C9_Witness ==
    /\ passes >= 1
    /\ EMP # EmptyMap
    /\ \E i \in 1..Len(bRows) : rosterID[i] = <<>>
    /\ \E j \in 1..Len(sRows) : historyID[j] # <<>> /\ historyID[j] \notin DOMAIN EMP

\* C10: a record's marital status is the roster's (the last roster row of
\* the id that has one) whenever a roster row supplies one; the history's
\* (the first history row of the id that has one) is used only when no
\* roster value was set: in a first pass, exactly when no roster row supplies
\* one.
C10_MaritalPrecedence ==
    passes >= 1 =>
        \A id \in DOMAIN EMP :
            LET rs == {i \in 1..Len(bRows) :
                          rosterID[i] = id /\ rosterMarital[i] # <<>>}
                hs == {j \in 1..Len(sRows) :
                          historyID[j] = id /\ historyMarital[j] # <<>>}
                lastR == CHOOSE i \in rs : \A k \in rs : k <= i
                firstH == CHOOSE j \in hs : \A k \in hs : j <= k
            IN  /\ rs # {} => EMP[id].MaritalStatus = rosterMarital[lastR]
                /\ (rs = {} /\ passes = 1) =>
                       EMP[id].MaritalStatus =
                           IF hs = {} THEN <<>> ELSE historyMarital[firstH]

C10_Witness ==
    /\ passes >= 1
    /\ \E id \in DOMAIN EMP :
        \E i \in 1..Len(bRows), j \in 1..Len(sRows) :
            /\ rosterID[i] = id
            /\ historyID[j] = id
            /\ rosterMarital[i] # <<>>
            /\ historyMarital[j] # <<>>
            /\ historyMarital[j] # rosterMarital[i]
            /\ EMP[id].MaritalStatus = rosterMarital[i]

-----------------------------------------------------------------------------
(***************************************************************************)
(* Claims about the text functions.                                        *)
(***************************************************************************)
IsDigitString(s) == \A k \in 1..Len(s) : IsDigit(s[k])

\* C11: normalizeEmpID returns nothing but digits, and for a digit string d
\* the texts d, d.0 and " d " all give d.
C11_CanonicalID ==
    called.fn = "normalizeEmpID" =>
        LET a == called.arg
            n == Len(a)
        IN  /\ IsDigitString(called.val)
            /\ IsDigitString(a) => called.val = a
            /\ (n >= 2 /\ a[n - 1] = "." /\ a[n] = "0"
                       /\ IsDigitString(SubSeq(a, 1, n - 2)))
                   => called.val = SubSeq(a, 1, n - 2)
            /\ (n >= 2 /\ a[1] = " " /\ a[n] = " "
                       /\ IsDigitString(SubSeq(a, 2, n - 1)))
                   => called.val = SubSeq(a, 2, n - 1)

C11_Witness ==
    /\ called.fn = "normalizeEmpID"
    /\ called.arg = <<"1","1","1","1","1",".","0">>
    /\ called.val = <<"1","1","1","1","1">>

\* the maximal runs of digits of s, as <<first, last>> positions
digitRuns(s) ==
    {r \in (1..Len(s)) \X (1..Len(s)) :
        /\ r[1] <= r[2]
        /\ \A k \in r[1]..r[2] : IsDigit(s[k])
        /\ (r[1] = 1 \/ ~IsDigit(s[r[1] - 1]))
        /\ (r[2] = Len(s) \/ ~IsDigit(s[r[2] + 1]))}

\* those of at least 5 digits
longRuns(s) == {r \in digitRuns(s) : r[2] - r[1] + 1 >= 5}

firstRun(R) == CHOOSE r \in R : \A q \in R : r[1] <= q[1]

lastRun(R) == CHOOSE r \in R : \A q \in R : q[1] <= r[1]

\* C12: whenever the text has a run of at least 5 digits, digitsOnlyKey
\* returns the last such run, also when shorter runs of digits follow it.
C12_LastRunPreferred ==
    (called.fn = "digitsOnlyKey" /\ longRuns(called.arg) # {}) =>
        LET r == lastRun(longRuns(called.arg))
        IN  called.val = SubSeq(called.arg, r[1], r[2])

\* C13: digitsOnlyKey returns nothing exactly when the text has no run of at
\* least 5 digits; otherwise it returns a whole run of at least 5 digits:
\* the first one when no such run is followed by non-digits only, and
\* the one that is (the last run of the text) when there is one.
C13_RunOrNothing ==
    called.fn = "digitsOnlyKey" =>
        LET a == called.arg
            L == longRuns(a)
            anchored == {r \in L : \A k \in (r[2] + 1)..Len(a) : ~IsDigit(a[k])}
        IN  /\ called.val = <<>> <=> L = {}
            /\ L # {} => \E r \in L : called.val = SubSeq(a, r[1], r[2])
            /\ (L # {} /\ anchored = {}) =>
                   called.val = SubSeq(a, firstRun(L)[1], firstRun(L)[2])
            /\ anchored # {} =>
                   \A r \in anchored : called.val = SubSeq(a, r[1], r[2])

\* two runs of at least 5 digits and a shorter one behind them: the first
\* is returned
C13_Witness ==
    /\ called.fn = "digitsOnlyKey"
    /\ called.arg = <<"1","1","1","1","1","a","2","2","2","2","2","2",".","0">>
    /\ called.val = <<"1","1","1","1","1">>

-----------------------------------------------------------------------------
(***************************************************************************)
(* Claims about the categories and the sex counters of buildAll.           *)
(***************************************************************************)
\* the category columns in their order of precedence
categoryColumns ==
    <<colSelectionCategory, colSelectionCategory1, colAppliedCategory, colCategory>>

\* the value of the first category column that has one in history row i
firstCategoryValue(i) ==
    LET v == [c \in 1..4 |-> get(sRows[i], sm, <<categoryColumns[c]>>)]
        has == {c \in 1..4 : v[c] # <<>>}
    IN  IF has = {} THEN <<>> ELSE v[CHOOSE c \in has : \A d \in has : c <= d]

\* C14: the category recorded for the id of a history row (the last row of
\* the id) is the trimmed upper-cased value of the first category column, in
\* the order Selection Category, SelectionCategory, Applied Category,
\* Category, that has a value in that row; it is UNKNOWN only when none has.
C14_CategoryPrecedence ==
    passes >= 1 =>
        \A i \in 1..Len(sRows) :
            (/\ historyID[i] # <<>>
             /\ \A j \in (i + 1)..Len(sRows) : historyID[j] # historyID[i])
            => /\ historyID[i] \in DOMAIN catByEmpID
               /\ catByEmpID[historyID[i]] =
                    IF firstCategoryValue(i) = <<>> THEN UNKNOWN
                    ELSE ToUpper(TrimSpace(firstCategoryValue(i)))

RECURSIVE SumOfMap(_, _)
SumOfMap(f, D) ==
    IF D = {} THEN 0
    ELSE LET k == CHOOSE x \in D : TRUE IN f[k] + SumOfMap(f, D \ {k})

qualifying == {id \in DOMAIN EMP : EMP[id].Zone # <<>> /\ EMP[id].Designation # <<>>}

\* C15: every person record has a non-empty category (UNKNOWN when none is
\* known, also for a roster person without history row), and the flat
\* category totals add up to the number of records that are aggregated.
C15_OneCategoryBucket ==
    passes >= 1 =>
        /\ \A id \in DOMAIN EMP : EMP[id].SelectionCategory # <<>>
        /\ SumOfMap(CATEGORY_WISE, DOMAIN CATEGORY_WISE) = Cardinality(qualifying)

\* the category totals alone reconcile
C15_TotalsReconcile ==
    /\ passes >= 1
    /\ \E id \in qualifying : EMP[id].SelectionCategory = <<>>
    /\ SumOfMap(CATEGORY_WISE, DOMAIN CATEGORY_WISE) = Cardinality(qualifying)

sexText(id) == ToUpper(TrimSpace(EMP[id].Gender))

maleRecord(id) == sexText(id) \in {<<"M">>, <<"M","A","L","E">>}

femaleRecord(id) == sexText(id) \in {<<"F">>, <<"F","E","M","A","L","E">>}

categoryOf(id) ==
    IF EMP[id].SelectionCategory = <<>> THEN UNKNOWN ELSE EMP[id].SelectionCategory

religionOf(id) == IF EMP[id].Religion = <<>> THEN UNKNOWN ELSE EMP[id].Religion

\* C16: every aggregated record is male (M, MALE), female (F, FEMALE) or
\* unclassified, never two of them; the male counters of a cell, of its
\* categories and religions and of the roll-up count the male records only,
\* the female counters the female records only, and the cell total and the
\* category totals count every record, unclassified ones included.
C16_SexClassification ==
    passes >= 1 =>
        /\ \A id \in qualifying : ~(maleRecord(id) /\ femaleRecord(id))
        /\ GENDER_WISE.Male = Cardinality({id \in qualifying : maleRecord(id)})
        /\ GENDER_WISE.Female = Cardinality({id \in qualifying : femaleRecord(id)})
        /\ DOMAIN CATEGORY_WISE = {categoryOf(id) : id \in qualifying}
        /\ \A c \in DOMAIN CATEGORY_WISE :
               CATEGORY_WISE[c] = Cardinality({id \in qualifying : categoryOf(id) = c})
        /\ \A i \in 1..Len(DEMO_ZONES) :
             \A j \in 1..Len(DEMO_ZONES[i].Designations) :
               LET cell == DEMO_ZONES[i].Designations[j]
                   st == cell.Stats
                   mem == cellMembers(DEMO_ZONES[i].Zone, cell.Designation)
               IN  /\ st.Total = Cardinality(mem)
                   /\ st.TotalMale = Cardinality({id \in mem : maleRecord(id)})
                   /\ st.TotalFemale = Cardinality({id \in mem : femaleRecord(id)})
                   /\ DOMAIN st.CatStats = {categoryOf(id) : id \in mem}
                   /\ \A c \in DOMAIN st.CatStats :
                        /\ st.CatStats[c].Male = Cardinality(
                             {id \in mem : maleRecord(id) /\ categoryOf(id) = c})
                        /\ st.CatStats[c].Female = Cardinality(
                             {id \in mem : femaleRecord(id) /\ categoryOf(id) = c})
                   /\ DOMAIN st.ReligionStats = {religionOf(id) : id \in mem}
                   /\ \A c \in DOMAIN st.ReligionStats :
                        /\ st.ReligionStats[c].Male = Cardinality(
                             {id \in mem : maleRecord(id) /\ religionOf(id) = c})
                        /\ st.ReligionStats[c].Female = Cardinality(
                             {id \in mem : femaleRecord(id) /\ religionOf(id) = c})

\* a female record in one cell and an unclassified record in another
C16_Witness ==
    /\ passes >= 1
    /\ Cardinality(qualifying) = 2
    /\ \E f \in qualifying : femaleRecord(f)
    /\ \E u \in qualifying : ~maleRecord(u) /\ ~femaleRecord(u)
    /\ GENDER_WISE.Female = 1
    /\ GENDER_WISE.Male = 0

-----------------------------------------------------------------------------
(***************************************************************************)
(* Claims about the staffing records.                                      *)
(***************************************************************************)
\* the staffing records the two programs have handed out, with the school
\* each was made for
staffRecords ==
    {[of |-> SCH[STAFF[i].ID], row |-> STAFF[i]] : i \in 1..Len(STAFF)}
    \cup (IF resp.status = 200 THEN {[of |-> resp.School, row |-> resp.Staff]}
          ELSE {})

\* the least k with PerTeacher * k >= n, and 0 when that k is negative
ceilingFlooredAtZero(n) ==
    CHOOSE k \in 0..(IF n > 0 THEN n ELSE 0) :
        /\ PerTeacher * k >= n
        /\ k = 0 \/ PerTeacher * (k - 1) < n

\* C17: in the staffing list and in the school API the needed teachers of a
\* unit are ceiling(MaxPresent / 40) floored at zero: never negative, and 0
\* for a capacity of 0.
C17_NeededFlooredAtZero ==
    \A x \in staffRecords :
        /\ x.row.NeededTeachers = ceilingFlooredAtZero(x.of.MaxPresent)
        /\ x.row.NeededTeachers >= 0
        /\ x.of.MaxPresent = 0 => x.row.NeededTeachers = 0

\* the school API floors the needed teachers of a negative capacity
C17_FlooredInAPI ==
    /\ resp.status = 200
    /\ resp.School.MaxPresent = 0 - 80
    /\ resp.Staff.NeededTeachers = 0

personsAt(sid) == {id \in DOMAIN EMP : EMP[id].SchoolID = sid}

designationHas(id, kw) == Contains(ToLower(EMP[id].Designation), kw)

\* C18: HasPrincipal holds exactly when some record of the unit has a
\* designation containing "principal", HasSpecialEdu exactly when some has
\* one containing "special educator", whatever the case and whatever other
\* keyword the designation holds.
C18_RoleFlags ==
    \A x \in staffRecords :
        /\ x.row.HasPrincipal <=>
             \E id \in personsAt(x.row.ID) : designationHas(id, kwPrincipal)
        /\ x.row.HasSpecialEdu <=>
             \E id \in personsAt(x.row.ID) : designationHas(id, kwSpecialEducator)

\* the school API sees the principal in a designation that also holds
\* "teacher"
C18_BothKeywordsInAPI ==
    /\ resp.status = 200
    /\ resp.Staff.HasPrincipal
    /\ resp.Staff.ActualTeachers = resp.Staff.TotalStaff

\* C19: ActualTeachers is the number of records of the unit whose designation
\* contains "teacher" whatever the case, TotalStaff the number of all records
\* of the unit, SurplusVacancy is ActualTeachers - NeededTeachers, and
\* ActualTeachers <= TotalStaff.
C19_StaffCounts ==
    \A x \in staffRecords :
        /\ x.row.ActualTeachers =
             Cardinality({id \in personsAt(x.row.ID) : designationHas(id, kwTeacher)})
        /\ x.row.TotalStaff = Cardinality(personsAt(x.row.ID))
        /\ x.row.SurplusVacancy = x.row.ActualTeachers - x.row.NeededTeachers
        /\ x.row.ActualTeachers <= x.row.TotalStaff

\* a school with a teacher, a clerk and a vacancy, in the list and in the API
C19_Witness ==
    /\ \E i \in 1..Len(STAFF) :
         /\ STAFF[i].ActualTeachers = 1
         /\ STAFF[i].TotalStaff = 2
         /\ STAFF[i].SurplusVacancy = 0 - 1
    /\ resp.status = 200
    /\ resp.Staff.ActualTeachers = 1
    /\ resp.Staff.TotalStaff = 2
    /\ resp.Staff.SurplusVacancy = 0 - 1

\* C20: a unit without teachers has the ratio 0 and nothing is divided by
\* zero; with teachers the ratio is MaxPresent over their number.
C20_RatioGuard ==
    \A x \in staffRecords :
        /\ x.row.Ratio.den # 0
        /\ x.row.ActualTeachers = 0 => x.row.Ratio = ZeroRatio
        /\ x.row.ActualTeachers > 0 =>
             x.row.Ratio = [num |-> x.of.MaxPresent, den |-> x.row.ActualTeachers]

\* a school with pupils and no teacher in the list and in the API, and a
\* school with teachers in the list
C20_Witness ==
    /\ \E i \in 1..Len(STAFF) :
         /\ STAFF[i].ActualTeachers = 0
         /\ SCH[STAFF[i].ID].MaxPresent = 41
         /\ STAFF[i].Ratio = ZeroRatio
    /\ \E i \in 1..Len(STAFF) : STAFF[i].Ratio = [num |-> 80, den |-> 2]
    /\ resp.status = 200
    /\ resp.Staff.ActualTeachers = 0
    /\ resp.School.MaxPresent = 41

-----------------------------------------------------------------------------
(***************************************************************************)
(* Claims about the ranked summaries, ageFromDOB, get and norm.            *)
(***************************************************************************)
\* key j ranks before key k in the counts m
ranksBefore(m, j, k) == m[j] > m[k] \/ (m[j] = m[k] /\ LessStr(j, k))

\* C21: take(toSorted(counts), n) has min(n, number of keys) pairs, each a
\* key with its count, in descending order of count and ascending order of
\* key among equal counts, and every key left out ranks after every key
\* returned; so the result does not depend on the order of the map.
C21_RankedSummary ==
    called.fn = "take" =>
        LET m == called.arg.m
            n == called.arg.n
            v == called.val
            keys == {v[i].K : i \in 1..Len(v)}
        IN  /\ Len(v) = IF n < Cardinality(DOMAIN m) THEN n ELSE Cardinality(DOMAIN m)
            /\ \A i \in 1..Len(v) : v[i].K \in DOMAIN m /\ v[i].V = m[v[i].K]
            /\ \A i \in 1..(Len(v) - 1) : ranksBefore(m, v[i].K, v[i + 1].K)
            /\ \A k \in (DOMAIN m) \ keys : \A j \in keys : ranksBefore(m, j, k)

\* two keys with equal counts, one of them cut off
C21_Witness ==
    /\ called.fn = "take"
    /\ called.arg.m = (<<"A">> :> 1 @@ <<"A","B">> :> 2 @@ <<"B">> :> 1)
    /\ called.arg.n = 2
    /\ called.val = << [K |-> <<"A","B">>, V |-> 2], [K |-> <<"A">>, V |-> 1] >>

\* the years between the birth and today, the birthday of this year not
\* looked at
naiveAge(d, today) == today.year - d.year

\* today's month and day come before the month and day of the birth
beforeBirthday(d, today) ==
    today.month < d.month \/ (today.month = d.month /\ today.day < d.day)

\* C22: ageFromDOB is 0 for a date of birth that does not parse; otherwise the
\* difference of the years, less one when today's (month, day) precedes the
\* (month, day) of the birth, and never below 0. For a birth on 29 February
\* it is one less than the difference of the years on 28 February and equal
\* to it on 29 February and on 1 March.
C22_AgeFromDOB ==
    called.fn = "ageFromDOB" =>
        LET d == parseDMYFlexible(called.arg.dob)
            today == called.arg.today
            n == naiveAge(d, today)
            full == IF n < 0 THEN 0 ELSE n
            less == IF n - 1 < 0 THEN 0 ELSE n - 1
        IN  /\ ~d.ok => called.val = 0
            /\ d.ok /\ beforeBirthday(d, today) => called.val = less
            /\ d.ok /\ ~beforeBirthday(d, today) => called.val = full
            /\ called.val >= 0
            /\ (d.ok /\ d.month = 2 /\ d.day = 29) =>
                 /\ (today.month = 2 /\ today.day = 28) => called.val = less
                 /\ (today.month = 2 /\ today.day = 29) => called.val = full
                 /\ (today.month = 3 /\ today.day = 1) => called.val = full

\* born on 29 February 2000, asked on 28 February 2024
C22_Witness ==
    /\ called.fn = "ageFromDOB"
    /\ parseDMYFlexible(called.arg.dob) = [ok |-> TRUE, year |-> 2000, month |-> 2, day |-> 29]
    /\ called.arg.today = [year |-> 2024, month |-> 2, day |-> 28]
    /\ called.val = 23

\* the position in the row, from 1, that the index gives for a name; 0 when
\* the index does not have the name or the row ends before the position
cellFor(rec, m, nm) ==
    LET k == ToLower(TrimSpace(nm))
    IN  IF k \in DOMAIN m /\ m[k] >= 0 /\ m[k] < Len(rec) THEN m[k] + 1 ELSE 0

\* C23: get returns the normalised cell of the first name, the primary name
\* first and then the aliases in their order, that the index has with a
\* position inside the row; it returns the empty text when there is no such
\* name, whatever the length of the row.
C23_GetFirstUsable ==
    called.fn = "get" =>
        LET rec == called.arg.rec
            m == called.arg.m
            names == called.arg.names
            usable == {k \in 1..Len(names) : cellFor(rec, m, names[k]) # 0}
        IN  IF usable = {} THEN called.val = <<>>
            ELSE LET first == CHOOSE k \in usable : \A j \in usable : k <= j
                 IN  called.val = norm(rec[cellFor(rec, m, names[first])])

\* the first name is in the index beyond the end of the row, and the value
\* comes from an alias
C23_Witness ==
    /\ called.fn = "get"
    /\ Len(called.arg.names) = 3
    /\ Len(called.arg.rec) = 2
    /\ called.arg.m = (<<"z","o","n","e">> :> 0 @@ <<"o","t","h","e","r">> :> 1
                       @@ <<"z","o","n","e"," ","i","d">> :> 2)
    /\ called.arg.rec[1] = <<" ","y","NBSP">>
    /\ called.val = <<"y">>

\* a whitespace character: a space, a tab, a non-breaking space
whitespace(c) == c \in {" ", "TAB", "NBSP"}

\* C24: the text norm returns has no whitespace at its ends and no two
\* adjacent whitespace characters, every run of spaces, tabs and
\* non-breaking spaces being one space; and norm is idempotent.
C24_NormWhitespace ==
    called.fn = "norm" =>
        LET v == called.val
        IN  /\ v # <<>> => ~whitespace(v[1]) /\ ~whitespace(v[Len(v)])
            /\ \A i \in 1..(Len(v) - 1) : ~(whitespace(v[i]) /\ whitespace(v[i + 1]))
            /\ \A i \in 1..Len(v) : whitespace(v[i]) => v[i] = " "
            /\ called.again = v

\* norm of a normalised text is that text
C24_Idempotent == called.fn = "norm" => called.again = called.val

\* a run of a non-breaking space and a space, collapsed
C24_Witness ==
    /\ called.fn = "norm"
    /\ called.arg = <<"a", "NBSP", " ", "a">>
    /\ called.val = <<"a", " ", "a">>

-----------------------------------------------------------------------------
(***************************************************************************)
(* Claims about the zones, the aggregate table and the ranked summaries of *)
(* buildAll.                                                               *)
(***************************************************************************)
rosterZone == [i \in 1..Len(bRows) |->
                 get(bRows[i], bm, <<colZoneID, colZoneName, colZone>>)]

\* the last roster row of the id
lastRowOf(id) == CHOOSE i \in 1..Len(bRows) :
                    rosterID[i] = id /\ \A j \in (i + 1)..Len(bRows) : rosterID[j] # id

\* the records counted in some cell of the table
inSomeCell ==
    {id \in DOMAIN EMP :
        \E i \in 1..Len(DEMO_ZONES) :
            /\ DEMO_ZONES[i].Zone = EMP[id].Zone
            /\ \E j \in 1..Len(DEMO_ZONES[i].Designations) :
                 DEMO_ZONES[i].Designations[j].Designation = TrimSpace(EMP[id].Designation)}

\* C25: the zone of every person record is non-empty, upper-cased and trimmed,
\* and is UNKNOWN when the roster row has none; so every record that has a
\* designation is aggregated, whatever the zone cell of its row.
C25_ZoneNeverEmpty ==
    passes >= 1 =>
        /\ \A id \in DOMAIN EMP :
             /\ EMP[id].Zone # <<>>
             /\ EMP[id].Zone = ToUpper(TrimSpace(EMP[id].Zone))
             /\ EMP[id].Zone = IF TrimSpace(rosterZone[lastRowOf(id)]) = <<>> THEN UNKNOWN
                               ELSE ToUpper(TrimSpace(rosterZone[lastRowOf(id)]))
        /\ \A id \in DOMAIN EMP : EMP[id].Designation # <<>> => id \in inSomeCell
        /\ totalOfCells = Cardinality({id \in DOMAIN EMP : EMP[id].Designation # <<>>})

\* a record of a roster row without zone, counted in a cell of UNKNOWN
C25_Witness ==
    /\ passes >= 1
    /\ \E id \in DOMAIN EMP :
         /\ rosterZone[lastRowOf(id)] = <<>>
         /\ EMP[id].Zone = UNKNOWN
         /\ id \in inSomeCell
    /\ \E id \in DOMAIN EMP : EMP[id].Zone = <<"A">>

\* the records that are aggregated: those with a zone and a designation
aggregated == {id \in DOMAIN EMP : EMP[id].Zone # <<>> /\ EMP[id].Designation # <<>>}

zoneLabel(id) == ToUpper(TrimSpace(EMP[id].Zone))

designationLabel(id) == TrimSpace(EMP[id].Designation)

C26_TwoDesignations ==
    /\ passes >= 1
    /\ Len(DEMO_ZONES) = 1
    /\ Len(DEMO_ZONES[1].Designations) = 2
    /\ DEMO_ZONES[1].Designations[1].Designation = <<"C">>
    /\ DEMO_ZONES[1].Designations[2].Designation = <<"T">>

\* the sum of the counts of a ranked summary (no more than TopN keys are
\* drawn, so the summary holds every count)
sumOfValues(vals) == SumSeq([i \in 1..Len(vals) |-> Atoi(vals[i])])

\* C29: the counts by zone and the counts by designation that feed the
\* ranked summaries each add up to the number of person records, also when
\* several roster rows have the same id.
C29_CountsSumToPersons ==
    passes >= 1 =>
        /\ sumOfValues(ZVAL) = Cardinality(DOMAIN EMP)
        /\ sumOfValues(DVAL) = Cardinality(DOMAIN EMP)

\* two roster rows of one person, counted twice
C29_CountedTwice ==
    /\ passes >= 1
    /\ Len(bRows) = 2
    /\ rosterID[1] = rosterID[2]
    /\ Cardinality(DOMAIN EMP) = 1
    /\ sumOfValues(ZVAL) = 2
    /\ sumOfValues(DVAL) = 2

\* without a repeated id the counts add up to the number of records
C29_DistinctRowsReconcile ==
    (/\ passes >= 1
     /\ \A i, j \in 1..Len(bRows) : rosterID[i] = rosterID[j] /\ rosterID[i] # <<>> => i = j)
    => /\ sumOfValues(ZVAL) = Cardinality(DOMAIN EMP)
       /\ sumOfValues(DVAL) = Cardinality(DOMAIN EMP)

\* the sum of the male, and of the female, counts of the keys of a map of
\* counters
RECURSIVE sumMale(_, _)
sumMale(st, D) ==
    IF D = {} THEN 0
    ELSE LET k == CHOOSE x \in D : TRUE IN st[k].Male + sumMale(st, D \ {k})

RECURSIVE sumFemale(_, _)
sumFemale(st, D) ==
    IF D = {} THEN 0
    ELSE LET k == CHOOSE x \in D : TRUE IN st[k].Female + sumFemale(st, D \ {k})

\* C30: in every cell the male counts of the category keys add up to
\* TotalMale, and so do the male counts of the religion keys (likewise for
\* female); the flat totals by sex are the sums of TotalMale and of
\* TotalFemale over all cells.
C30_SexSumsAgree ==
    passes >= 1 =>
        /\ \A i \in 1..Len(DEMO_ZONES) :
             \A j \in 1..Len(DEMO_ZONES[i].Designations) :
                LET st == DEMO_ZONES[i].Designations[j].Stats
                IN  /\ sumMale(st.CatStats, DOMAIN st.CatStats) = st.TotalMale
                    /\ sumMale(st.ReligionStats, DOMAIN st.ReligionStats) = st.TotalMale
                    /\ sumFemale(st.CatStats, DOMAIN st.CatStats) = st.TotalFemale
                    /\ sumFemale(st.ReligionStats, DOMAIN st.ReligionStats) = st.TotalFemale
        /\ GENDER_WISE.Male =
             SumSeq([i \in 1..Len(DEMO_ZONES) |->
                SumSeq([j \in 1..Len(DEMO_ZONES[i].Designations) |->
                          DEMO_ZONES[i].Designations[j].Stats.TotalMale])])
        /\ GENDER_WISE.Female =
             SumSeq([i \in 1..Len(DEMO_ZONES) |->
                SumSeq([j \in 1..Len(DEMO_ZONES[i].Designations) |->
                          DEMO_ZONES[i].Designations[j].Stats.TotalFemale])])

\* a male and a female record in the cells of the table
C30_Witness ==
    /\ passes >= 1
    /\ GENDER_WISE.Male = 1
    /\ GENDER_WISE.Female = 1

-----------------------------------------------------------------------------
(***************************************************************************)
(* Claims about requests that run while /refresh runs.                     *)
(***************************************************************************)
\* C27: a handler that runs while /refresh runs, and two /refresh requests
\* that run together, never see or leave a partly rebuilt person map: what
\* a request reads is in the complete map of some pass, and when no /refresh
\* is in flight EMP is the complete map of some pass.
C27_CompleteTablesOnly ==
    /\ (resp.status = 200 /\ resp.handler = "index") => resp.EMP \in tables
    /\ (resp.status = 200 /\ resp.handler = "emp") =>
           \E T \in tables : resp.id \in DOMAIN T /\ T[resp.id] = resp.e
    /\ (resp.status = 404 /\ resp.handler = "emp") =>
           \E T \in tables : resp.id \notin DOMAIN T
    /\ (\A p \in Refreshers : pc[p] = "idle") => EMP \in tables

\* person 7 is in the map of every pass, and /api/emp answers not found
C27_NotFoundMidRefresh ==
    /\ resp.status = 404
    /\ resp.handler = "emp"
    /\ resp.id = <<"7">>
    /\ \A T \in tables : <<"7">> \in DOMAIN T

\* two /refresh requests have ended and EMP is the map of neither
C27_MixedTable ==
    /\ \A p \in Refreshers : pc[p] = "idle"
    /\ ~crashed
    /\ EMP \notin tables


\* the mapping the rebuild loop produces from the rows Services.csv holds now
rebuiltNow ==
    LET csv == readCSV(servFile)
    IN  rebuildDOJ(csv.rows, idxMap_v7(csv.header), EmptyMap)

\* C28: whenever a run takes the reuse path, the mapping it loads from the
\* cache equals the mapping a rebuild from the current rows of Services.csv
\* would produce.
C28_ReuseIsCurrent ==
    path = "reuse" => dojByEmpID = rebuiltNow

\* C28 witness: Services.csv was modified in the same tick of the clock as the
\* cache was written; the run reuses an intact cache whose mapping is no
\* longer the one the rows give
C28_StaleReuse ==
    /\ path = "reuse"
    /\ seen.cache.valid
    /\ \A k \in DOMAIN seen.cache.obj : seen.cache.obj[k].t = "str"
    /\ seen.cache.mtime = servMtime
    /\ dojByEmpID # rebuiltNow

=============================================================================
